---- MODULE Spec2Model ----
(***************************************************************************)
(* The Architect: the rule-based SQL classification engine.                *)
(*   scripts/migration-validator.py  validate_migration                    *)
(*   src/architect_tools.py          MigrationGeneratorTool                *)
(*   scripts/rls-auditor.py          audit_rls_from_migrations, main       *)
(* Texts are TLA+ strings; the matchers work on their characters, as the   *)
(* Python code does (str.upper, the `in` substring test, re.findall).      *)
(* The source's emoji prefixes are written as ASCII tags, since a TLA+     *)
(* string holds ASCII only: [!!] for the siren, [!] for the warning sign,  *)
(* [i] for the information sign, [OK] for the check mark, [X] for the      *)
(* cross mark.  None of them is a letter, so str.upper leaves them alone.  *)
(* The Markdown code fence (three backticks) is written as three           *)
(* apostrophes for the same reason.                                        *)
(***************************************************************************)
EXTENDS Integers, Sequences, FiniteSets, TLC

VARIABLES
  registry,      \* the module-level tables (DANGEROUS_OPS, REQUIRED_RLS_TABLES, ...)
  sql,           \* the migration text under classification (UP SQL)
  file_exists,   \* whether the file validate_migration is pointed at exists
  vm,            \* the result of validate_migration, or NoResult
  gen,           \* the result of MigrationGeneratorTool._run, or NoResult
  files,         \* the migrations directory: file name -> text, or NoDir
  audit,         \* auditor: "idle", "scanning" (in the glob loop) or "done"
  todo,          \* auditor: the *.sql files the loop has not visited yet
  rls_enabled,   \* auditor: the local set rls_enabled
  tables_created,\* auditor: the local set tables_created
  result,        \* auditor: what audit_rls_from_migrations returned, or NoResult
  report,        \* auditor: what main() reported, or NoResult
  first,         \* the result of the audit made before a repeating file was added
  frames,        \* parallel callers: worker -> the frame of its call in progress
  returned,      \* parallel callers: the calls that have returned, with their results
  left,          \* parallel callers: the lists the calls returned so far left behind
  query_text,    \* the query text given to the query advisor
  advice,        \* the outcome of analyze_query, or NoResult
  opt,           \* the result of QueryOptimizerTool._run, or NoResult
  schema         \* the database the migrations were applied to: table -> RLS enabled

classifier_vars == <<sql, file_exists, vm, gen>>
audit_vars == <<files, audit, todo, rls_enabled, tables_created, result, report, first>>
par_vars == <<frames, returned, left>>
advisor_vars == <<query_text, advice, opt>>
vars == <<registry, classifier_vars, audit_vars, par_vars, advisor_vars, schema>>

NoResult == [none |-> TRUE]
NoDir == [nodir |-> TRUE]
\* the database without any table
NoSchema == << >>

(***************************************************************************)
(* Strings.                                                                *)
(***************************************************************************)
LowerLetters == "abcdefghijklmnopqrstuvwxyz"
UpperLetters == "ABCDEFGHIJKLMNOPQRSTUVWXYZ"
Digits == "0123456789"

CharAt(s, i) == SubSeq(s, i, i)

\* the characters of s, as a set of one-character strings
CharSet(s) == { CharAt(s, i) : i \in 1..Len(s) }

\* a str as the sequence of its characters, the form the matchers work on
Chars(s) == [ i \in 1..Len(s) |-> CharAt(s, i) ]

ToUpperMap == [ c \in CharSet(LowerLetters) |->
                 CharAt(UpperLetters,
                        CHOOSE i \in 1..26 : CharAt(LowerLetters, i) = c) ]

ToLowerMap == [ c \in CharSet(UpperLetters) |->
                 CharAt(LowerLetters,
                        CHOOSE i \in 1..26 : CharAt(UpperLetters, i) = c) ]

UpperChar(c) == IF c \in DOMAIN ToUpperMap THEN ToUpperMap[c] ELSE c
LowerChar(c) == IF c \in DOMAIN ToLowerMap THEN ToLowerMap[c] ELSE c

\* str.upper() and str.lower() on ASCII text, character by character
Upper(s) == LET cs == Chars(s) IN [ i \in 1..Len(cs) |-> UpperChar(cs[i]) ]
Lower(s) == LET cs == Chars(s) IN [ i \in 1..Len(cs) |-> LowerChar(cs[i]) ]

\* whether the characters mc stand at position i of the characters cs
StartsAt(cs, i, mc) ==
  /\ i >= 1
  /\ i + Len(mc) - 1 <= Len(cs)
  /\ \A k \in 1..Len(mc) : cs[i + k - 1] = mc[k]

\* Python's `m in s`, for the characters cs of s and a str m
Contains(cs, m) ==
  LET mc == Chars(m)
      n == Len(mc)
  IN  \E i \in 1..(Len(cs) - n + 1) : \A k \in 1..n : cs[i + k - 1] = mc[k]

\* the regular expression class \w on ASCII text
WordChars == CharSet(LowerLetters) \cup CharSet(UpperLetters) \cup CharSet(Digits) \cup { "_" }
IsWordChar(c) == c \in WordChars

\* the last position of the longest run of \w characters that starts at
\* position i of cs; i - 1 when there is none
RECURSIVE WordRunEnd(_, _)
WordRunEnd(cs, i) ==
  IF i <= Len(cs) /\ IsWordChar(cs[i]) THEN WordRunEnd(cs, i + 1) ELSE i - 1

\* `x in list`
InSeq(x, seq) == \E i \in 1..Len(seq) : seq[i] = x

\* the characters cs[a..b] as a str
RECURSIVE StrOf(_, _, _)
StrOf(cs, a, b) == IF a > b THEN "" ELSE cs[a] \o StrOf(cs, a + 1, b)

\* str.lower() of the characters cs[a..b], as a str
LowerStr(cs, a, b) == StrOf([ i \in a..b |-> LowerChar(cs[i]) ], a, b)

(***************************************************************************)
(* scripts/migration-validator.py                                          *)
(***************************************************************************)
\* DANGEROUS_OPS, a dict: its items in insertion order
DANGEROUS_OPS ==
  << [op |-> "DROP TABLE",        description |-> "[!!] Table deletion - requires full backup"],
     [op |-> "DROP COLUMN",       description |-> "[!!] Column deletion - use deprecation instead"],
     [op |-> "ALTER COLUMN TYPE", description |-> "[!!] Type change - requires table rewrite"],
     [op |-> "TRUNCATE",          description |-> "[!!] Data truncation - irreversible"],
     [op |-> "RENAME COLUMN",     description |-> "[!] Rename - breaks application code"],
     [op |-> "RENAME TABLE",      description |-> "[!] Rename - breaks application code"] >>

SAFE_OPS == << "ADD COLUMN", "CREATE TABLE", "CREATE INDEX CONCURRENTLY", "ADD CONSTRAINT" >>

W_INDEX_LOCK == "[!] Index creation without CONCURRENTLY - will lock table"
W_NO_RLS == "[!] New table without RLS enabled"
W_NO_POLICY == "[!] New table without RLS policies"
W_NO_ROLLBACK == "[i] No rollback plan documented"

\* a faulty variant: the loop left at the first match
DangerousIssues_Break(ops, content_upper) ==
  LET hit == SelectSeq(ops, LAMBDA e : Contains(content_upper, e.op))
  IN  IF hit = << >> THEN << >> ELSE << hit[1].description >>

\* for op, description in DANGEROUS_OPS.items(): if op in content_upper: issues.append(description)
DangerousIssues(ops, content_upper) ==
  LET hit == SelectSeq(ops, LAMBDA e : Contains(content_upper, e.op))
  IN  [ i \in 1..Len(hit) |-> hit[i].description ]

IndexWarning(content_upper) ==
  IF Contains(content_upper, "CREATE INDEX") /\ ~Contains(content_upper, "CONCURRENTLY")
  THEN << W_INDEX_LOCK >> ELSE << >>

\* a faulty variant: the policy check nested under the RLS check
RlsWarnings_Nested(content_upper) ==
  IF Contains(content_upper, "CREATE TABLE") /\ ~Contains(content_upper, "ENABLE ROW LEVEL SECURITY")
  THEN << W_NO_RLS >>
       \o (IF ~Contains(content_upper, "CREATE POLICY") THEN << W_NO_POLICY >> ELSE << >>)
  ELSE << >>

RlsWarnings(content_upper) ==
  IF Contains(content_upper, "CREATE TABLE")
  THEN (IF ~Contains(content_upper, "ENABLE ROW LEVEL SECURITY") THEN << W_NO_RLS >> ELSE << >>)
       \o (IF ~Contains(content_upper, "CREATE POLICY") THEN << W_NO_POLICY >> ELSE << >>)
  ELSE << >>

\* a faulty variant: `or` for `and`
RollbackWarning_Or(content_upper) ==
  IF ~Contains(content_upper, "ROLLBACK") \/ ~Contains(content_upper, "-- DOWN")
  THEN << W_NO_ROLLBACK >> ELSE << >>

RollbackWarning(content_upper) ==
  IF ~Contains(content_upper, "ROLLBACK") /\ ~Contains(content_upper, "-- DOWN")
  THEN << W_NO_ROLLBACK >> ELSE << >>

\* a faulty variant: warnings count against is_safe
validate_migration_WarningsBlock(ops, file_path, exists, content) ==
  IF ~exists
  THEN [is_safe |-> FALSE, issues |-> << "File not found: " \o file_path >>, warnings |-> << >>]
  ELSE LET content_upper == Upper(content)
           issues == DangerousIssues(ops, content_upper)
           warnings == IndexWarning(content_upper) \o RlsWarnings(content_upper)
                       \o RollbackWarning(content_upper)
       IN  [is_safe |-> Len(issues) = 0 /\ Len(warnings) = 0,
            issues |-> issues, warnings |-> warnings]

\* validate_migration(file_path), the file holding `content` when it exists
validate_migration(ops, file_path, exists, content) ==
  IF ~exists
  THEN [is_safe |-> FALSE, issues |-> << "File not found: " \o file_path >>, warnings |-> << >>]
  ELSE LET content_upper == Upper(content)
           issues == DangerousIssues(ops, content_upper)
           warnings == IndexWarning(content_upper) \o RlsWarnings(content_upper)
                       \o RollbackWarning(content_upper)
       IN  [is_safe |-> Len(issues) = 0, issues |-> issues, warnings |-> warnings]

(***************************************************************************)
(* src/architect_tools.py: MigrationGeneratorTool                          *)
(***************************************************************************)
R_DROP_TABLE == "DROP TABLE detected - requires full backup"
R_DROP_COLUMN == "DROP COLUMN detected - use soft deprecation instead"
R_TYPE_CHANGE == "Column type change - requires table rewrite"
R_INDEX_LOCK == "Index creation without CONCURRENTLY - will lock table"

\* a faulty variant: the checks chained with elif, so one finding hides the next
analyze_risks_ElifChain(s) ==
  LET sql_upper == Upper(s)
  IN  IF Contains(sql_upper, "DROP TABLE") THEN << R_DROP_TABLE >>
      ELSE IF Contains(sql_upper, "DROP COLUMN") THEN << R_DROP_COLUMN >>
      ELSE IF Contains(sql_upper, "ALTER COLUMN TYPE") THEN << R_TYPE_CHANGE >>
      ELSE IF Contains(sql_upper, "CREATE INDEX") /\ ~Contains(sql_upper, "CONCURRENTLY")
           THEN << R_INDEX_LOCK >>
      ELSE << >>

\* the four checks of _analyze_risks, appending to the list `risks`
AppendRisks(risks, sql_upper) ==
  risks
  \o (IF Contains(sql_upper, "DROP TABLE") THEN << R_DROP_TABLE >> ELSE << >>)
  \o (IF Contains(sql_upper, "DROP COLUMN") THEN << R_DROP_COLUMN >> ELSE << >>)
  \o (IF Contains(sql_upper, "ALTER COLUMN TYPE") THEN << R_TYPE_CHANGE >> ELSE << >>)
  \o (IF Contains(sql_upper, "CREATE INDEX") /\ ~Contains(sql_upper, "CONCURRENTLY")
      THEN << R_INDEX_LOCK >> ELSE << >>)

analyze_risks(s) == AppendRisks(<< >>, Upper(s))

\* the local list `dangerous` of _is_additive
dangerous == << "DROP TABLE", "DROP COLUMN", "ALTER COLUMN TYPE", "TRUNCATE" >>

\* a faulty variant: DROP TABLE left out of the list
is_additive_NoDropTable(s) ==
  LET sql_upper == Upper(s)
  IN  ~ \E i \in 2..Len(dangerous) : Contains(sql_upper, dangerous[i])

is_additive(s) ==
  LET sql_upper == Upper(s)
  IN  ~ \E i \in 1..Len(dangerous) : Contains(sql_upper, dangerous[i])

RowThreshold == 100000

\* a faulty variant: the index rule tried before the table and column rules
estimate_runtime_IndexFirst(s, rows) ==
  LET sql_upper == Upper(s)
  IN  IF Contains(sql_upper, "CREATE INDEX")
      THEN (IF rows < RowThreshold THEN "5-15 seconds" ELSE "1-5 minutes")
      ELSE IF Contains(sql_upper, "CREATE TABLE") THEN "<1 second"
      ELSE IF Contains(sql_upper, "ADD COLUMN")
           THEN (IF ~Contains(sql_upper, "DEFAULT") THEN "<1 second (nullable column)"
                 ELSE "1-30 seconds")
      ELSE "Unknown - requires testing"

estimate_runtime(s, rows) ==
  LET sql_upper == Upper(s)
  IN  IF Contains(sql_upper, "CREATE TABLE") THEN "<1 second"
      ELSE IF Contains(sql_upper, "ADD COLUMN")
           THEN (IF ~Contains(sql_upper, "DEFAULT") THEN "<1 second (nullable column)"
                 ELSE "1-30 seconds")
      ELSE IF Contains(sql_upper, "CREATE INDEX")
           THEN (IF rows < RowThreshold THEN "5-15 seconds" ELSE "1-5 minutes")
      ELSE "Unknown - requires testing"

DigitStr(d) == CharAt(Digits, d + 1)

RECURSIVE IntToStr(_)
IntToStr(n) == IF n < 10 THEN DigitStr(n) ELSE IntToStr(n \div 10) \o DigitStr(n % 10)

Pad3(n) == DigitStr(n \div 100) \o DigitStr((n \div 10) % 10) \o DigitStr(n % 10)

\* format(n, ",") for n >= 0
RECURSIVE FormatThousands(_)
FormatThousands(n) ==
  IF n < 1000 THEN IntToStr(n)
  ELSE FormatThousands(n \div 1000) \o "," \o Pad3(n % 1000)

RECURSIVE RiskLines(_)
RiskLines(risks) ==
  IF risks = << >> THEN ""
  ELSE "-- [!] " \o Head(risks) \o "\n" \o RiskLines(Tail(risks))

RuleLine == "-- ============================================================================\n"

CHECK_YES == "[OK] YES"
CHECK_NO == "[X] NO - REQUIRES REVIEW"

\* the f-strings of _run: the generated file
AssembleContent(migration_name, up_sql, down_sql, estimated_rows, risks, additive, estimated_runtime, t1, t2) ==
  LET filename == t1.stamp \o "_" \o migration_name \o ".sql"
  IN  RuleLine
      \o "-- Migration: " \o migration_name \o "\n"
      \o "-- Created: " \o t2.created \o "\n"
      \o "-- File: " \o filename \o "\n"
      \o RuleLine \o "\n"
      \o "-- SAFETY CHECKLIST\n"
      \o "-- ================\n"
      \o "-- [ ] Is this migration additive? "
      \o (IF additive THEN CHECK_YES ELSE CHECK_NO) \o "\n"
      \o "-- [ ] Estimated runtime at " \o FormatThousands(estimated_rows)
      \o " rows: ~" \o estimated_runtime \o "\n"
      \o "-- [ ] Rollback plan documented? [OK] See DOWN migration below\n"
      \o "-- [ ] Guardian approval obtained? REQUIRED BEFORE EXECUTION\n\n"
      \o (IF Len(risks) > 0 THEN "-- RISKS DETECTED\n" \o RiskLines(risks) \o "\n" ELSE "")
      \o "-- UP MIGRATION\nBEGIN;\n" \o up_sql \o "\nCOMMIT;\n\n"
      \o "-- DOWN MIGRATION (ROLLBACK)\nBEGIN;\n" \o down_sql \o "\nCOMMIT;\n"

\* a faulty variant: the whole file analysed, the DOWN SQL included
MigrationGenerator_run_WholeFile(migration_name, up_sql, down_sql, estimated_rows, t1, t2) ==
  LET both == up_sql \o "\n" \o down_sql
      risks == analyze_risks(both)
      additive == is_additive(both)
      estimated_runtime == estimate_runtime(both, estimated_rows)
  IN  [risks |-> risks, is_additive |-> additive, estimated_runtime |-> estimated_runtime,
       estimated_rows |-> estimated_rows, down_sql |-> down_sql,
       content |-> AssembleContent(migration_name, up_sql, down_sql, estimated_rows,
                                   risks, additive, estimated_runtime, t1, t2)]

\* MigrationGeneratorTool._run; t1 and t2 are the two readings of datetime.now()
MigrationGenerator_run(migration_name, up_sql, down_sql, estimated_rows, t1, t2) ==
  LET risks == analyze_risks(up_sql)
      additive == is_additive(up_sql)
      estimated_runtime == estimate_runtime(up_sql, estimated_rows)
  IN  [risks |-> risks, is_additive |-> additive, estimated_runtime |-> estimated_runtime,
       estimated_rows |-> estimated_rows, down_sql |-> down_sql,
       content |-> AssembleContent(migration_name, up_sql, down_sql, estimated_rows,
                                   risks, additive, estimated_runtime, t1, t2)]

(***************************************************************************)
(* src/architect_tools.py: SchemaDesignerTool                              *)
(***************************************************************************)
\* dict.get(key, default)
Get(d, key, default) == IF key \in DOMAIN d THEN d[key] ELSE default

\* str.split('(')[0]: the text before the first parenthesis
RECURSIVE BeforeParen(_)
BeforeParen(s) ==
  IF s = "" \/ SubSeq(s, 1, 1) = "(" THEN ""
  ELSE SubSeq(s, 1, 1) \o BeforeParen(Tail(s))

\* sep.join(list)
RECURSIVE Join(_, _)
Join(sep, list) ==
  IF list = << >> THEN ""
  ELSE IF Len(list) = 1 THEN list[1]
  ELSE list[1] \o sep \o Join(sep, Tail(list))

\* str.rstrip(',\n'): trailing commas and newlines removed
RECURSIVE RStripCommaNewline(_)
RStripCommaNewline(s) ==
  IF s = "" THEN ""
  ELSE IF SubSeq(s, Len(s), Len(s)) \in { ",", "\n" }
       THEN RStripCommaNewline(SubSeq(s, 1, Len(s) - 1))
       ELSE s

\* _format_column; an absent default or comment is the empty text
format_column(col) ==
  LET name == Get(col, "name", "column")
      data_type == Get(col, "type", "TEXT")
      nullable == Get(col, "nullable", TRUE)
      default == Get(col, "default", "")
      unique == Get(col, "unique", FALSE)
      comment == Get(col, "comment", "")
  IN  name \o " " \o data_type
      \o (IF unique THEN " UNIQUE" ELSE "")
      \o (IF ~nullable THEN " NOT NULL" ELSE "")
      \o (IF default # "" THEN " DEFAULT " \o default ELSE "")
      \o (IF comment # "" THEN "  -- " \o comment ELSE "")

\* the loop over the columns
RECURSIVE ColumnLines(_)
ColumnLines(columns) ==
  IF columns = << >> THEN ""
  ELSE "  " \o format_column(Head(columns)) \o ",\n" \o ColumnLines(Tail(columns))

\* the loops over the constraints and over the indexes
RECURSIVE ConstraintLines(_)
ConstraintLines(constraints) ==
  IF constraints = << >> THEN ""
  ELSE "  " \o Head(constraints) \o ",\n" \o ConstraintLines(Tail(constraints))

RECURSIVE IndexLines(_)
IndexLines(indexes) ==
  IF indexes = << >> THEN ""
  ELSE Head(indexes) \o "\n" \o IndexLines(Tail(indexes))

\* SchemaDesignerTool._run; an argument left at None is the empty list, now
\* is the clock reading as strftime renders it
SchemaDesigner_run(table_name, purpose, columns, foreign_keys, indexes, constraints, now) ==
  LET header == RuleLine
                \o "-- Table: " \o table_name \o "\n"
                \o "-- Purpose: " \o purpose \o "\n"
                \o "-- Created: " \o now \o "\n"
                \o RuleLine \o "\n"
      deps == [ k \in 1..Len(foreign_keys) |-> BeforeParen(Get(foreign_keys[k], "references", "")) ]
      dependencies == IF foreign_keys # << >>
                      THEN "-- Dependencies: " \o Join(", ", deps) \o "\n"
                      ELSE ""
      index_count == "-- Indexes: " \o IntToStr(Len(indexes)) \o "\n\n"
      create == "CREATE TABLE " \o table_name \o " (\n"
                \o "  id UUID PRIMARY KEY DEFAULT gen_random_uuid(),\n"
                \o ColumnLines(columns)
                \o "\n  -- Audit fields\n"
                \o "  created_at TIMESTAMPTZ NOT NULL DEFAULT NOW(),\n"
                \o "  updated_at TIMESTAMPTZ NOT NULL DEFAULT NOW(),\n"
                \o "  deleted_at TIMESTAMPTZ,\n"
                \o (IF constraints # << >>
                    THEN "\n  -- Constraints\n" \o ConstraintLines(constraints)
                    ELSE "")
      trigger == "-- Trigger: Update updated_at on modification\n"
                 \o "CREATE TRIGGER update_" \o table_name \o "_updated_at\n"
                 \o "  BEFORE UPDATE ON " \o table_name \o "\n"
                 \o "  FOR EACH ROW\n"
                 \o "  EXECUTE FUNCTION update_updated_at_column();\n\n"
      index_block == IF indexes # << >>
                     THEN "-- Indexes for " \o table_name \o "\n" \o IndexLines(indexes) \o "\n"
                     ELSE ""
  IN  RStripCommaNewline(header \o dependencies \o index_count \o create) \o "\n"
      \o ");\n\n"
      \o trigger
      \o index_block
      \o "COMMENT ON TABLE " \o table_name \o " IS '" \o purpose \o "';\n"

(***************************************************************************)
(* src/architect_tools.py: RLSPolicyGeneratorTool                          *)
(***************************************************************************)
\* the statement that turns row-level security on
EnableRlsStatement(table_name) ==
  "-- Enable RLS\n"
  \o "ALTER TABLE " \o table_name \o " ENABLE ROW LEVEL SECURITY;\n\n"

\* a policy for authenticated users on their own rows
OwnPolicy(table_name, title, suffix, operation, clauses) ==
  "-- Policy: Users can " \o title \o " own data\n"
  \o "CREATE POLICY \"" \o table_name \o "_" \o suffix \o "_own\"\n"
  \o "  ON " \o table_name \o "\n"
  \o "  FOR " \o operation \o "\n"
  \o "  TO authenticated\n"
  \o clauses \o "\n\n"

UsingOwn(user_id_column) == "  USING (auth.uid() = " \o user_id_column \o ")"
WithCheckOwn(user_id_column) == "  WITH CHECK (auth.uid() = " \o user_id_column \o ")"

\* the text after the statement that turns row-level security on
PolicyStatements(table_name, user_id_column) ==
  OwnPolicy(table_name, "view", "select", "SELECT", UsingOwn(user_id_column) \o ";")
  \o OwnPolicy(table_name, "insert", "insert", "INSERT", WithCheckOwn(user_id_column) \o ";")
  \o OwnPolicy(table_name, "update", "update", "UPDATE",
               UsingOwn(user_id_column) \o "\n" \o WithCheckOwn(user_id_column) \o ";")
  \o OwnPolicy(table_name, "delete", "delete", "DELETE", UsingOwn(user_id_column) \o ";")
  \o "-- Policy: Service role has full access (for background jobs)\n"
  \o "CREATE POLICY \"" \o table_name \o "_service_role_all\"\n"
  \o "  ON " \o table_name \o "\n"
  \o "  FOR ALL\n"
  \o "  TO service_role\n"
  \o "  USING (true)\n"
  \o "  WITH CHECK (true);\n\n"
  \o "-- Grant permissions\n"
  \o "GRANT SELECT, INSERT, UPDATE, DELETE ON " \o table_name \o " TO authenticated;\n"
  \o "GRANT ALL ON " \o table_name \o " TO service_role;\n"

PolicyHeader(table_name) ==
  RuleLine
  \o "-- RLS Policies for " \o table_name \o "\n"
  \o "-- Pattern: User Isolation (users can only access their own data)\n"
  \o RuleLine \o "\n"

\* a faulty variant: the policies without the statement that turns
\* row-level security on
RLSPolicyGenerator_run_PoliciesOnly(table_name, user_id_column) ==
  PolicyHeader(table_name) \o PolicyStatements(table_name, user_id_column)

\* RLSPolicyGeneratorTool._run
RLSPolicyGenerator_run(table_name, user_id_column) ==
  PolicyHeader(table_name)
  \o EnableRlsStatement(table_name)
  \o PolicyStatements(table_name, user_id_column)

(***************************************************************************)
(* scripts/index-analyzer.py: the registry of query shapes                 *)
(***************************************************************************)
QUERY_PATTERNS ==
  << [name |-> "user_lookup",
      pattern |-> "WHERE\\s+user_id\\s*=",
      description |-> "User-based lookup",
      index |-> "CREATE INDEX CONCURRENTLY idx_{table}_user_id ON {table}(user_id);"],
     [name |-> "date_range",
      pattern |-> "WHERE.*(?:created_at|updated_at|transaction_date)\\s*(?:>|<|BETWEEN)",
      description |-> "Date range query",
      index |-> "CREATE INDEX CONCURRENTLY idx_{table}_date ON {table}({date_col} DESC);"],
     [name |-> "order_by_date",
      pattern |-> "ORDER BY\\s+(?:created_at|updated_at|transaction_date)",
      description |-> "Ordered by date",
      index |-> "CREATE INDEX CONCURRENTLY idx_{table}_date ON {table}({date_col} DESC);"],
     [name |-> "foreign_key",
      pattern |-> "WHERE\\s+\\w+_id\\s*=",
      description |-> "Foreign key lookup",
      index |-> "CREATE INDEX CONCURRENTLY idx_{table}_{fk} ON {table}({fk});"] >>

\* the regular expression class \s on ASCII text
Whitespace == { " ", "\t", "\n", "\r", "\f" }

\* the first position from i on that holds no whitespace (greedy \s*)
RECURSIVE SkipSpace(_, _)
SkipSpace(cs, i) ==
  IF i <= Len(cs) /\ cs[i] \in Whitespace THEN SkipSpace(cs, i + 1) ELSE i

\* a literal of a pattern compiled with re.IGNORECASE, at position i
StartsAtI(cs, i, m) ==
  LET mc == Chars(m)
  IN  /\ i >= 1
      /\ i + Len(mc) - 1 <= Len(cs)
      /\ \A k \in 1..Len(mc) : UpperChar(cs[i + k - 1]) = UpperChar(mc[k])

\* the positions where a literal of a pattern matches
LiteralAt(cs, m) == { i \in 1..(Len(cs) - Len(m) + 1) : StartsAtI(cs, i, m) }

\* (?:created_at|updated_at|transaction_date)
DateColumns == << "created_at", "updated_at", "transaction_date" >>

\* the positions right after an alternative of DateColumns that stands at j
AfterDateColumn(cs, j) ==
  { j + Len(DateColumns[k]) : k \in { n \in 1..Len(DateColumns) : StartsAtI(cs, j, DateColumns[n]) } }

\* re.search(r'WHERE\s+user_id\s*=', query_upper, re.IGNORECASE)
SearchUserLookup(cs) ==
  \E i \in LiteralAt(cs, "WHERE") :
    LET p == SkipSpace(cs, i + 5)
        q == SkipSpace(cs, p + 7)
    IN  /\ p > i + 5
        /\ StartsAtI(cs, p, "user_id")
        /\ q <= Len(cs) /\ cs[q] = "="

\* re.search(r'WHERE.*(?:created_at|updated_at|transaction_date)\s*(?:>|<|BETWEEN)', ...);
\* the dot matches every character but the newline
SearchDateRange(cs) ==
  \E i \in LiteralAt(cs, "WHERE") :
    \E j \in (i + 5)..Len(cs) :
      /\ \A k \in (i + 5)..(j - 1) : cs[k] # "\n"
      /\ \E a \in AfterDateColumn(cs, j) :
           LET q == SkipSpace(cs, a)
           IN  \/ (q <= Len(cs) /\ cs[q] \in { ">", "<" })
               \/ StartsAtI(cs, q, "BETWEEN")

\* re.search(r'ORDER BY\s+(?:created_at|updated_at|transaction_date)', ...)
SearchOrderByDate(cs) ==
  \E i \in LiteralAt(cs, "ORDER BY") :
    LET p == SkipSpace(cs, i + 8)
    IN  p > i + 8 /\ AfterDateColumn(cs, p) # {}

\* re.search(r'WHERE\s+\w+_id\s*=', ...): the greedy \w+ gives back three
\* characters, so the run of \w characters has to end in _id
SearchForeignKey(cs) ==
  \E i \in LiteralAt(cs, "WHERE") :
    LET p == SkipSpace(cs, i + 5)
        e == WordRunEnd(cs, p)
        q == SkipSpace(cs, e + 1)
    IN  /\ p > i + 5
        /\ e - p + 1 >= 4
        /\ StartsAtI(cs, e - 2, "_id")
        /\ q <= Len(cs) /\ cs[q] = "="

\* re.search(pattern, query_upper, re.IGNORECASE) for the patterns of the registry
re_search(pattern, cs) ==
  CASE pattern = "WHERE\\s+user_id\\s*=" -> SearchUserLookup(cs)
    [] pattern = "WHERE.*(?:created_at|updated_at|transaction_date)\\s*(?:>|<|BETWEEN)" -> SearchDateRange(cs)
    [] pattern = "ORDER BY\\s+(?:created_at|updated_at|transaction_date)" -> SearchOrderByDate(cs)
    [] pattern = "WHERE\\s+\\w+_id\\s*=" -> SearchForeignKey(cs)

\* the position of the first "}" from i on; 0 when there is none
RECURSIVE ClosingBrace(_, _)
ClosingBrace(tc, i) ==
  IF i > Len(tc) THEN 0 ELSE IF tc[i] = "}" THEN i ELSE ClosingBrace(tc, i + 1)

\* the replacement fields of a format string, from position i on
RECURSIVE FormatFields(_, _)
FormatFields(tc, i) ==
  IF i > Len(tc) THEN {}
  ELSE IF tc[i] = "{" /\ ClosingBrace(tc, i) > 0
       THEN { StrOf(tc, i + 1, ClosingBrace(tc, i) - 1) } \cup FormatFields(tc, ClosingBrace(tc, i) + 1)
  ELSE FormatFields(tc, i + 1)

\* the format string with every field replaced by its keyword argument
RECURSIVE Substitute(_, _, _)
Substitute(tc, i, kwargs) ==
  IF i > Len(tc) THEN ""
  ELSE IF tc[i] = "{" /\ ClosingBrace(tc, i) > 0
       THEN kwargs[StrOf(tc, i + 1, ClosingBrace(tc, i) - 1)]
              \o Substitute(tc, ClosingBrace(tc, i) + 1, kwargs)
  ELSE tc[i] \o Substitute(tc, i + 1, kwargs)

\* str.format with keyword arguments raises KeyError for a field without one
FormatRaises(template, kwargs) == ~(FormatFields(Chars(template), 1) \subseteq DOMAIN kwargs)

\* str.format with keyword arguments, when it returns
Format(template, kwargs) == Substitute(Chars(template), 1, kwargs)

A_SELECT_STAR ==
  [issue |-> "SELECT * fetches all columns",
   suggestion |-> "Select only needed columns for better performance"]

A_NO_WHERE ==
  [issue |-> "No WHERE clause",
   suggestion |-> "Add WHERE clause or LIMIT to avoid full table scan"]

\* the default of the parameter table_name
DefaultTableName == "TABLE"

\* a faulty variant: the table name of the caller ignored
FormatArgs_DefaultTable(table_name) ==
  [table |-> DefaultTableName, date_col |-> "created_at", fk |-> "column_id"]

\* a faulty variant: the keyword argument fk forgotten
FormatArgs_NoFk(table_name) == [table |-> table_name, date_col |-> "created_at"]

\* the keyword arguments of the format call on line 58
FormatArgs(table_name) == [table |-> table_name, date_col |-> "created_at", fk |-> "column_id"]

\* a faulty variant: a suggestion an earlier pattern already made is left out
RECURSIVE PatternEntries_Dedup(_, _, _, _)
PatternEntries_Dedup(patterns, k, query_upper, table_name) ==
  IF k > Len(patterns) THEN << >>
  ELSE (IF /\ re_search(patterns[k].pattern, query_upper)
           /\ ~\E j \in 1..(k - 1) : /\ patterns[j].index = patterns[k].index
                                     /\ re_search(patterns[j].pattern, query_upper)
        THEN << [issue |-> patterns[k].description \o " detected",
                 suggestion |-> Format(patterns[k].index, FormatArgs(table_name))] >>
        ELSE << >>)
       \o PatternEntries_Dedup(patterns, k + 1, query_upper, table_name)

\* the loop over QUERY_PATTERNS.items(), from entry k on: one recommendation
\* per pattern that matches, in the order of the dict
RECURSIVE PatternEntries(_, _, _, _)
PatternEntries(patterns, k, query_upper, table_name) ==
  IF k > Len(patterns) THEN << >>
  ELSE (IF re_search(patterns[k].pattern, query_upper)
        THEN << [issue |-> patterns[k].description \o " detected",
                 suggestion |-> Format(patterns[k].index, FormatArgs(table_name))] >>
        ELSE << >>)
       \o PatternEntries(patterns, k + 1, query_upper, table_name)

\* lines 39-44: the SELECT * check
SelectStarEntry(query_upper) ==
  IF Contains(query_upper, "SELECT *") THEN << A_SELECT_STAR >> ELSE << >>

\* a faulty variant: `or` for `and`
NoWhereEntry_Or(query_upper) ==
  IF ~Contains(query_upper, "WHERE") \/ ~Contains(query_upper, "LIMIT")
  THEN << A_NO_WHERE >> ELSE << >>

\* lines 46-51: the missing WHERE check
NoWhereEntry(query_upper) ==
  IF ~Contains(query_upper, "WHERE") /\ ~Contains(query_upper, "LIMIT")
  THEN << A_NO_WHERE >> ELSE << >>

\* a faulty variant: the SELECT * check made after the pattern loop
analyze_query_StarLast(patterns, query, table_name) ==
  LET query_upper == Upper(query)
  IN  [raised |-> "",
       recommendations |-> NoWhereEntry(query_upper)
                             \o PatternEntries(patterns, 1, query_upper, table_name)
                             \o SelectStarEntry(query_upper)]

\* analyze_query(query, table_name): the list of recommendations it returns,
\* or the exception it raises (raised is "" when it returns)
analyze_query(patterns, query, table_name) ==
  LET query_upper == Upper(query)
  IN  IF \E k \in 1..Len(patterns) :
            /\ re_search(patterns[k].pattern, query_upper)
            /\ FormatRaises(patterns[k].index, FormatArgs(table_name))
      THEN [raised |-> "KeyError", recommendations |-> << >>]
      ELSE [raised |-> "",
            recommendations |-> SelectStarEntry(query_upper) \o NoWhereEntry(query_upper)
                                  \o PatternEntries(patterns, 1, query_upper, table_name)]

(***************************************************************************)
(* src/architect_tools.py: QueryOptimizerTool                              *)
(***************************************************************************)
Q_SELECT_STAR == "[X] SELECT * fetches all columns (wasteful)"
Q_NO_WHERE == "[!] No WHERE clause - may scan entire table"
Q_ORDER_BY == "[!] ORDER BY detected - ensure index supports sorting"

QR_SELECT_STAR == "Select only needed columns explicitly"
QR_NO_WHERE == "Add WHERE clause or LIMIT for pagination"
QR_ORDER_BY == "Create index on ORDER BY columns"

\* for i, item in enumerate(list, 1): report += f"{i}. {item}\n"
RECURSIVE NumberedLines(_, _)
NumberedLines(list, i) ==
  IF i > Len(list) THEN ""
  ELSE IntToStr(i) \o ". " \o list[i] \o "\n" \o NumberedLines(list, i + 1)

\* QueryOptimizerTool._run(query)
QueryOptimizer_run(query) ==
  LET query_upper == Upper(query)
      star == Contains(query_upper, "SELECT *")
      unfiltered == ~Contains(query_upper, "WHERE") /\ ~Contains(query_upper, "LIMIT")
      ordered == Contains(query_upper, "ORDER BY")
      issues == (IF star THEN << Q_SELECT_STAR >> ELSE << >>)
                  \o (IF unfiltered THEN << Q_NO_WHERE >> ELSE << >>)
                  \o (IF ordered THEN << Q_ORDER_BY >> ELSE << >>)
      recommendations == (IF star THEN << QR_SELECT_STAR >> ELSE << >>)
                           \o (IF unfiltered THEN << QR_NO_WHERE >> ELSE << >>)
                           \o (IF ordered THEN << QR_ORDER_BY >> ELSE << >>)
  IN  [issues |-> issues,
       recommendations |-> recommendations,
       report |-> "## Query Optimization Analysis\n\n### Original Query\n'''sql\n" \o query
                    \o "\n'''\n\n### Issues Detected\n" \o NumberedLines(issues, 1)
                    \o "\n### Recommendations\n" \o NumberedLines(recommendations, 1)]

(***************************************************************************)
(* scripts/rls-auditor.py                                                  *)
(***************************************************************************)
REQUIRED_RLS_TABLES ==
  << "profiles", "accounts", "credit_cards", "auto_loans", "p2p_loans",
     "transactions", "subscriptions", "transfer_pairs", "user_category_rules" >>

EXEMPT_TABLES == << "merchant_database" >>

KW_ALTER_TABLE == Chars("ALTER TABLE ")
KW_ENABLE_RLS == Chars(" ENABLE ROW LEVEL SECURITY")
KW_CREATE_TABLE == Chars("CREATE TABLE ")
KW_IF_NOT_EXISTS == Chars("IF NOT EXISTS ")

\* the positions of cs where the characters mc stand (the candidates the
\* regular expression engine tries for a pattern with a literal prefix)
Occurrences(cs, mc) == { j \in 1..(Len(cs) - Len(mc) + 1) : StartsAt(cs, j, mc) }

\* the first of the positions `at` that is not before i; 0 when there is none
NextAt(at, i) ==
  LET later == { j \in at : j >= i }
  IN  IF later = {} THEN 0 ELSE CHOOSE j \in later : \A k \in later : j <= k

\* re.findall(r'ALTER TABLE (\w+) ENABLE ROW LEVEL SECURITY', content), from
\* position i on: the groups of the non-overlapping matches, left to right,
\* each lower-cased; `at` holds the positions of 'ALTER TABLE ' in cs
RECURSIVE FindRls(_, _, _)
FindRls(cs, at, i) ==
  LET j == NextAt(at, i)
      p == j + Len(KW_ALTER_TABLE)
      e == WordRunEnd(cs, p)
  IN  IF j = 0 THEN << >>
      ELSE IF e >= p /\ StartsAt(cs, e + 1, KW_ENABLE_RLS)
           THEN << LowerStr(cs, p, e) >> \o FindRls(cs, at, e + 1 + Len(KW_ENABLE_RLS))
           ELSE FindRls(cs, at, j + 1)

\* re.findall(r'CREATE TABLE (?:IF NOT EXISTS )?(\w+)', content), likewise; the
\* optional group is tried first and given up when no \w follows it; `at`
\* holds the positions of 'CREATE TABLE ' in cs
RECURSIVE FindCreated(_, _, _)
FindCreated(cs, at, i) ==
  LET j == NextAt(at, i)
      p == j + Len(KW_CREATE_TABLE)
      q == p + Len(KW_IF_NOT_EXISTS)
      eq == WordRunEnd(cs, q)
      ep == WordRunEnd(cs, p)
  IN  IF j = 0 THEN << >>
      ELSE IF StartsAt(cs, p, KW_IF_NOT_EXISTS) /\ eq >= q
           THEN << LowerStr(cs, q, eq) >> \o FindCreated(cs, at, eq + 1)
      ELSE IF ep >= p
           THEN << LowerStr(cs, p, ep) >> \o FindCreated(cs, at, ep + 1)
      ELSE FindCreated(cs, at, j + 1)

SeqToSet(seq) == { seq[i] : i \in 1..Len(seq) }

\* the two findall calls on the upper-cased content of one file
FindAllRls(content) == FindRls(content, Occurrences(content, KW_ALTER_TABLE), 1)
FindAllCreated(content) == FindCreated(content, Occurrences(content, KW_CREATE_TABLE), 1)

\* a faulty variant: the content searched as written, not upper-cased
CreatedIn_NoUpper(text) == SeqToSet(FindAllCreated(Chars(text)))

\* the two findall results of one file, as the sets the loop body adds
RlsIn(text) == SeqToSet(FindAllRls(Upper(text)))
CreatedIn(text) == SeqToSet(FindAllCreated(Upper(text)))

\* str.endswith, for the glob pattern *.sql
EndsWith(name, suffix) ==
  LET cs == Chars(name)
      sc == Chars(suffix)
  IN  Len(cs) >= Len(sc) /\ StartsAt(cs, Len(cs) - Len(sc) + 1, sc)

\* migrations_path.glob('*.sql')
GlobSql(dir) == { f \in DOMAIN dir : EndsWith(f, ".sql") }

\* a faulty variant: the test of rls_enabled forgotten
missing_rls_NoRlsTest(required, res) ==
  SelectSeq(required, LAMBDA t : t \in res.tables_created)

\* main: missing_rls, in the order of REQUIRED_RLS_TABLES
missing_rls(required, res) ==
  SelectSeq(required, LAMBDA t : t \in res.tables_created /\ t \notin res.rls_enabled)

(***************************************************************************)
(* Inputs of the migration classifier.                                     *)
(***************************************************************************)
MaxStatements == 2

\* statements a migration text is made of, in the letter case a user may type
Statements ==
  { "DROP TABLE t;",
    "alter table t drop column c;",
    "ALTER TABLE t ALTER COLUMN c TYPE int;",
    "-- alter column type",
    "Truncate t;",
    "CREATE INDEX idx ON t(col);",
    "create index concurrently i on t(c);",
    "CREATE TABLE t(id UUID);",
    "alter table t enable row level security;",
    "Create Policy p on t;",
    "ALTER TABLE t ADD COLUMN n TEXT;",
    "alter table t add column n int default 0;",
    "-- down",
    "Rollback;",
    "alter table t rename column a to b;",
    "rename table a to b;" }

\* the texts of exactly n statements, separated by one space
RECURSIVE TextsOf(_)
TextsOf(n) ==
  IF n = 0 THEN { "" }
  ELSE IF n = 1 THEN Statements
  ELSE { t \o " " \o st : t \in TextsOf(n - 1), st \in Statements }

MigrationTexts == UNION { TextsOf(n) : n \in 0..MaxStatements }

RowCounts == { 0, RowThreshold - 1, RowThreshold, 500000 }

DownTexts == { "-- recreate", "ALTER TABLE users DROP COLUMN notes;", "DROP TABLE audit_log;" }

MigrationName == "add_column"
MigrationPath == "migrations/add_column.sql"

\* two instants of the wall clock, as strftime renders them
Clock ==
  << [stamp |-> "20240115093059", created |-> "2024-01-15 09:30"],
     [stamp |-> "20240115093100", created |-> "2024-01-15 09:31"] >>

InitRegistry ==
  [DANGEROUS_OPS |-> DANGEROUS_OPS, SAFE_OPS |-> SAFE_OPS,
   QUERY_PATTERNS |-> QUERY_PATTERNS,
   REQUIRED_RLS_TABLES |-> REQUIRED_RLS_TABLES, EXEMPT_TABLES |-> EXEMPT_TABLES]

NoLists == [risks |-> << >>, issues |-> << >>, warnings |-> << >>]

ParIdle ==
  /\ frames = << >>
  /\ returned = {}
  /\ left = NoLists

AdvisorIdle ==
  /\ query_text = ""
  /\ advice = NoResult
  /\ opt = NoResult

AuditIdle ==
  /\ files = NoDir
  /\ audit = "idle"
  /\ todo = {}
  /\ rls_enabled = {}
  /\ tables_created = {}
  /\ result = NoResult
  /\ report = NoResult
  /\ first = NoResult

Init ==
  /\ registry = InitRegistry
  /\ schema = NoSchema
  /\ \/ file_exists = TRUE /\ sql \in MigrationTexts
     \/ file_exists = FALSE /\ sql = ""
  /\ vm = NoResult
  /\ gen = NoResult
  /\ AuditIdle
  /\ ParIdle
  /\ AdvisorIdle

\* One run is one invocation of one of the two programs: the validator's main()
\* calls validate_migration once (line 78), a tool invocation is one call of _run.
\* A call of validate_migration on the file:
ValidateMigration ==
  /\ vm = NoResult /\ gen = NoResult
  /\ vm' = validate_migration(registry.DANGEROUS_OPS, MigrationPath, file_exists, sql)
  /\ UNCHANGED <<registry, schema, advisor_vars, sql, file_exists, gen, audit_vars, par_vars>>

\* A call of MigrationGeneratorTool._run with the text as UP SQL; the second
\* reading of the clock is the first one or a later one.
GenerateMigration ==
  /\ vm = NoResult /\ gen = NoResult
  /\ \E rows \in RowCounts, down_sql \in DownTexts, j \in 1..Len(Clock) :
        gen' = MigrationGenerator_run(MigrationName, sql, down_sql, rows, Clock[1], Clock[j])
  /\ UNCHANGED <<registry, schema, advisor_vars, sql, file_exists, vm, audit_vars, par_vars>>

Next == ValidateMigration \/ GenerateMigration

Spec == Init /\ [][Next]_vars

(***************************************************************************)
(* The compliance auditor: main() of rls-auditor.py on a directory.        *)
(***************************************************************************)
MaxFiles == 2

\* texts of migration files
AuditTexts ==
  { "CREATE TABLE profiles (id uuid);",
    "alter table profiles enable row level security;",
    "create table if not exists accounts (id uuid); ALTER TABLE accounts ENABLE ROW LEVEL SECURITY;",
    "CREATE TABLE accounts (id uuid);",
    "CREATE TABLE merchant_database (id uuid);",
    "Create Table audit_log (id uuid);",
    "ALTER TABLE profiles ADD COLUMN bio TEXT;" }

SqlFileNames == { "m" \o IntToStr(i) \o ".sql" : i \in 1..MaxFiles }

\* a file of the directory that the glob does not select
OtherFiles == { << >>, "README.md" :> "CREATE TABLE transactions (id uuid);" }

Directories ==
  { d @@ o : d \in UNION { [ ns -> AuditTexts ] : ns \in SUBSET SqlFileNames },
             o \in OtherFiles }

MigrationsDir == "supabase/migrations"
RepeatFileName == "repeat.sql"

InitAudit ==
  /\ registry = InitRegistry
  /\ schema = NoSchema
  /\ sql = "" /\ file_exists = FALSE /\ vm = NoResult /\ gen = NoResult
  /\ files \in Directories \cup { NoDir }
  /\ audit = "idle"
  /\ todo = {}
  /\ rls_enabled = {}
  /\ tables_created = {}
  /\ result = NoResult
  /\ report = NoResult
  /\ first = NoResult
  /\ ParIdle
  /\ AdvisorIdle

\* audit_rls_from_migrations up to the loop: the existence test, the two
\* empty sets, the glob
AuditStart ==
  /\ audit = "idle"
  /\ IF files = NoDir
     THEN /\ result' = [error |-> "Directory not found: " \o MigrationsDir]
          /\ audit' = "done"
          /\ UNCHANGED <<todo, rls_enabled, tables_created>>
     ELSE /\ audit' = "scanning"
          /\ todo' = GlobSql(files)
          /\ rls_enabled' = {}
          /\ tables_created' = {}
          /\ UNCHANGED result
  /\ UNCHANGED <<registry, schema, advisor_vars, classifier_vars, par_vars, files, report, first>>

\* a faulty variant: security counted only for a table the same file creates
ScanFile_SameFile(acc, text) ==
  [rls_enabled |-> acc.rls_enabled \cup (RlsIn(text) \cap CreatedIn(text)),
   tables_created |-> acc.tables_created \cup CreatedIn(text)]

\* a faulty variant: the sets assigned, not updated
ScanFile_Assign(acc, text) ==
  [rls_enabled |-> RlsIn(text), tables_created |-> CreatedIn(text)]

\* the loop body on one file: both sets updated with the file's matches
ScanFile(acc, text) ==
  [rls_enabled |-> acc.rls_enabled \cup RlsIn(text),
   tables_created |-> acc.tables_created \cup CreatedIn(text)]

\* one iteration of the loop; the glob yields the files in any order
AuditFile ==
  /\ audit = "scanning"
  /\ \E f \in todo :
       LET acc == ScanFile([rls_enabled |-> rls_enabled, tables_created |-> tables_created],
                           files[f])
       IN  /\ rls_enabled' = acc.rls_enabled
           /\ tables_created' = acc.tables_created
           /\ todo' = todo \ { f }
  /\ UNCHANGED <<registry, schema, advisor_vars, classifier_vars, par_vars, files, audit, result, report, first>>

\* the return after the loop
AuditReturn ==
  /\ audit = "scanning"
  /\ todo = {}
  /\ result' = [tables_created |-> tables_created, rls_enabled |-> rls_enabled]
  /\ audit' = "done"
  /\ UNCHANGED <<registry, schema, advisor_vars, classifier_vars, par_vars, files, todo, rls_enabled,
                 tables_created, report, first>>

\* what main() prints for a result
main_report(reg, res) ==
  IF "error" \in DOMAIN res
  THEN [kind |-> "static checklist",
        warning |-> res.error,
        required |-> reg.REQUIRED_RLS_TABLES,
        exempt |-> reg.EXEMPT_TABLES]
  ELSE LET missing == missing_rls(reg.REQUIRED_RLS_TABLES, res)
       IN  [kind |-> "audit report",
            with_rls |-> res.rls_enabled,
            missing_rls |-> missing,
            verdict |-> IF Len(missing) > 0 THEN "ACTION REQUIRED"
                        ELSE "All user tables have RLS enabled!"]

\* main() after the call returned
MainReport ==
  /\ audit = "done"
  /\ report = NoResult
  /\ report' = main_report(registry, result)
  /\ UNCHANGED <<registry, schema, advisor_vars, classifier_vars, par_vars, files, audit, todo, rls_enabled,
                 tables_created, result, first>>

\* After a reported audit, a file is added to the directory that only repeats
\* statements for tables already seen, and the auditor is run again.
AddRepeatFile ==
  /\ report # NoResult
  /\ first = NoResult
  /\ files # NoDir
  /\ \E text \in AuditTexts :
       /\ CreatedIn(text) \subseteq result.tables_created
       /\ RlsIn(text) \subseteq result.rls_enabled
       /\ files' = files @@ (RepeatFileName :> text)
  /\ first' = [result |-> result, report |-> report]
  /\ audit' = "idle"
  /\ result' = NoResult
  /\ report' = NoResult
  /\ UNCHANGED <<registry, schema, advisor_vars, classifier_vars, par_vars, todo, rls_enabled, tables_created>>

NextAudit == AuditStart \/ AuditFile \/ AuditReturn \/ MainReport \/ AddRepeatFile

SpecAudit == InitAudit /\ [][NextAudit]_vars

(***************************************************************************)
(* The auditor on the migrations of a whole project: every required table  *)
(* is created and secured somewhere, in one file or spread over several.   *)
(***************************************************************************)
\* one CREATE TABLE statement per table of ts
RECURSIVE CreateAll(_)
CreateAll(ts) ==
  IF ts = << >> THEN "" ELSE "CREATE TABLE " \o Head(ts) \o "(); " \o CreateAll(Tail(ts))

\* one ENABLE ROW LEVEL SECURITY statement per table of ts
RECURSIVE SecureAll(_)
SecureAll(ts) ==
  IF ts = << >> THEN ""
  ELSE "alter table " \o Head(ts) \o " enable row level security; " \o SecureAll(Tail(ts))

FirstTables == SubSeq(REQUIRED_RLS_TABLES, 1, 5)

ProjectTexts ==
  { CreateAll(REQUIRED_RLS_TABLES),
    SecureAll(REQUIRED_RLS_TABLES),
    SecureAll(FirstTables) \o CreateAll(FirstTables),
    SecureAll(SubSeq(REQUIRED_RLS_TABLES, 1, Len(REQUIRED_RLS_TABLES) - 1)) }

ProjectDirectories ==
  UNION { [ ns -> ProjectTexts ] : ns \in SUBSET SqlFileNames }

InitAuditAll ==
  /\ registry = InitRegistry
  /\ schema = NoSchema
  /\ sql = "" /\ file_exists = FALSE /\ vm = NoResult /\ gen = NoResult
  /\ files \in ProjectDirectories
  /\ audit = "idle"
  /\ todo = {}
  /\ rls_enabled = {}
  /\ tables_created = {}
  /\ result = NoResult
  /\ report = NoResult
  /\ first = NoResult
  /\ ParIdle
  /\ AdvisorIdle

SpecAuditAll == InitAuditAll /\ [][NextAudit]_vars

(***************************************************************************)
(* The auditor on a migration history.  Migrations are applied to the       *)
(* database one after the other, each a file of the migrations directory    *)
(* holding one statement; then main() audits the directory.                 *)
(***************************************************************************)
MaxMigrations == 3

SchemaTables == { "profiles", "accounts" }

StatementKinds == { "create", "enable", "disable", "drop" }

\* the SQL of a statement
StatementText(kind, t) ==
  CASE kind = "create" -> "CREATE TABLE " \o t \o " (id uuid);"
    [] kind = "enable" -> "ALTER TABLE " \o t \o " ENABLE ROW LEVEL SECURITY;"
    [] kind = "disable" -> "ALTER TABLE " \o t \o " DISABLE ROW LEVEL SECURITY;"
    [] kind = "drop" -> "DROP TABLE " \o t \o ";"

\* the database accepts the statement: CREATE TABLE needs a new name, the
\* other statements an existing table
Applicable(db, kind, t) == IF kind = "create" THEN t \notin DOMAIN db ELSE t \in DOMAIN db

\* the database after the statement; a new table has row-level security off
ApplyStatement(db, kind, t) ==
  CASE kind = "create" -> db @@ (t :> FALSE)
    [] kind = "enable" -> [ db EXCEPT ![t] = TRUE ]
    [] kind = "disable" -> [ db EXCEPT ![t] = FALSE ]
    [] kind = "drop" -> [ x \in DOMAIN db \ { t } |-> db[x] ]

\* migration files are numbered in the order they were written
MigrationFileName(n) == Pad3(n) \o "_migration.sql"

InitSchema ==
  /\ registry = InitRegistry
  /\ schema = NoSchema
  /\ sql = "" /\ file_exists = FALSE /\ vm = NoResult /\ gen = NoResult
  /\ files = << >>
  /\ audit = "idle"
  /\ todo = {}
  /\ rls_enabled = {}
  /\ tables_created = {}
  /\ result = NoResult
  /\ report = NoResult
  /\ first = NoResult
  /\ ParIdle
  /\ AdvisorIdle

\* one more migration is written to the directory and applied to the database
ApplyMigration ==
  /\ audit = "idle"
  /\ Cardinality(DOMAIN files) < MaxMigrations
  /\ \E kind \in StatementKinds, t \in SchemaTables :
       /\ Applicable(schema, kind, t)
       /\ schema' = ApplyStatement(schema, kind, t)
       /\ files' = files @@ (MigrationFileName(Cardinality(DOMAIN files) + 1) :> StatementText(kind, t))
  /\ UNCHANGED <<registry, advisor_vars, classifier_vars, par_vars, audit, todo, rls_enabled,
                 tables_created, result, report, first>>

NextSchema == ApplyMigration \/ AuditStart \/ AuditFile \/ AuditReturn \/ MainReport

SpecSchema == InitSchema /\ [][NextSchema]_vars

(***************************************************************************)
(* Generators and checkers together: SchemaDesignerTool and                 *)
(* RLSPolicyGeneratorTool are run for one table, each output is saved as a  *)
(* file of the migrations directory, and the two outputs one after the      *)
(* other as the migration file the validator is pointed at; then the        *)
(* auditor and the validator run.                                           *)
(***************************************************************************)
\* table names made of word characters
RoundTripTables == { "profiles", "Audit_Log2", "t" }

UserIdColumns == { "user_id", "owner_id" }

\* the other arguments of SchemaDesignerTool._run
DesignShapes ==
  { [purpose |-> "Stores user data", columns |-> << >>, foreign_keys |-> << >>,
     indexes |-> << >>, constraints |-> << >>],
    [purpose |-> "replaces CREATE TABLE legacy",
     columns |-> << [name |-> "user_id", type |-> "UUID", nullable |-> FALSE] >>,
     foreign_keys |-> << [references |-> "auth.users(id)"] >>,
     indexes |-> << "CREATE INDEX CONCURRENTLY idx_user ON t(user_id);" >>,
     constraints |-> << >>],
    [purpose |-> "Ledger",
     columns |-> << [name |-> "email", unique |-> TRUE, comment |-> "login"],
                    [type |-> "INT", default |-> "0"] >>,
     foreign_keys |-> << >>,
     indexes |-> << >>,
     constraints |-> << "CHECK (amount > 0)" >>] }

SchemaFileName(t) == "create_" \o t \o ".sql"
PolicyFileName(t) == "rls_" \o t \o ".sql"

InitRoundTrip ==
  /\ registry = InitRegistry
  /\ schema = NoSchema
  /\ sql = "" /\ file_exists = FALSE /\ vm = NoResult /\ gen = NoResult
  /\ files = << >>
  /\ audit = "idle"
  /\ todo = {}
  /\ rls_enabled = {}
  /\ tables_created = {}
  /\ result = NoResult
  /\ report = NoResult
  /\ first = NoResult
  /\ ParIdle
  /\ AdvisorIdle

\* a call of SchemaDesignerTool._run; the output starts the migration
DesignSchema ==
  /\ files = << >> /\ vm = NoResult /\ audit = "idle"
  /\ \E t \in RoundTripTables, d \in DesignShapes :
       LET out == SchemaDesigner_run(t, d.purpose, d.columns, d.foreign_keys, d.indexes,
                                     d.constraints, Clock[1].created)
       IN  /\ files' = (SchemaFileName(t) :> out)
           /\ sql' = out
           /\ file_exists' = TRUE
  /\ UNCHANGED <<registry, schema, advisor_vars, vm, gen, par_vars, audit, todo, rls_enabled,
                 tables_created, result, report, first>>

\* a call of RLSPolicyGeneratorTool._run for the table designed
GeneratePolicies ==
  /\ vm = NoResult /\ audit = "idle"
  /\ \E t \in RoundTripTables, c \in UserIdColumns :
       /\ SchemaFileName(t) \in DOMAIN files
       /\ PolicyFileName(t) \notin DOMAIN files
       /\ LET out == RLSPolicyGenerator_run(t, c)
          IN  /\ files' = files @@ (PolicyFileName(t) :> out)
              /\ sql' = sql \o out
  /\ UNCHANGED <<registry, schema, advisor_vars, file_exists, vm, gen, par_vars, audit, todo,
                 rls_enabled, tables_created, result, report, first>>

NextRoundTrip ==
  \/ DesignSchema
  \/ GeneratePolicies
  \/ ValidateMigration
  \/ AuditStart
  \/ AuditFile
  \/ AuditReturn
  \/ MainReport

SpecRoundTrip == InitRoundTrip /\ [][NextRoundTrip]_vars

(***************************************************************************)
(* Parallel callers of the classifier.  Each worker runs one call at a     *)
(* time; a call runs in a frame of its own (its arguments and locals) and  *)
(* the steps of the calls interleave.  What calls share is the module-level*)
(* registry; `left` holds the list objects that returned calls left behind.*)
(***************************************************************************)
MaxCalls == 2

Workers == { "w1", "w2" }

ParTexts == { "DROP TABLE t; CREATE TABLE t(id UUID);", "CREATE INDEX idx ON t(col);" }
ParRows == { RowThreshold - 1, RowThreshold }
ParDownSql == "-- recreate"

\* a faulty variant: the list of an earlier call used again (a mutable default argument)
NewList_Reused(old) == old

\* `risks = []`, `issues = []`, `warnings = []`: a new empty list, whatever
\* list `old` an earlier call built
NewList(old) == << >>

IdleFrame ==
  [pc |-> "idle", kind |-> "none", sql |-> "", rows |-> 0, overlapped |-> FALSE,
   risks |-> << >>, additive |-> FALSE, runtime |-> "",
   content_upper |-> << >>, issues |-> << >>, warnings |-> << >>]

InitPar ==
  /\ registry = InitRegistry
  /\ schema = NoSchema
  /\ sql = "" /\ file_exists \in BOOLEAN /\ vm = NoResult /\ gen = NoResult
  /\ AuditIdle
  /\ frames = [ w \in Workers |-> IdleFrame ]
  /\ returned = {}
  /\ left = NoLists
  /\ AdvisorIdle

Busy(w) == frames[w].pc # "idle"
OthersBusy(w) == \E o \in Workers \ { w } : Busy(o)

\* a worker calls MigrationGeneratorTool._run(name, up_sql, down_sql, rows)
CallGenerate(w) ==
  /\ ~Busy(w)
  /\ Cardinality(returned) + Cardinality({ o \in Workers : Busy(o) }) < MaxCalls
  /\ \E text \in ParTexts, rows \in ParRows :
       frames' = [frames EXCEPT ![w] =
                    [IdleFrame EXCEPT !.pc = "risks", !.kind = "generate",
                                      !.sql = text, !.rows = rows,
                                      !.overlapped = OthersBusy(w)]]
  /\ UNCHANGED <<registry, schema, advisor_vars, classifier_vars, audit_vars, returned, left>>

\* risks = self._analyze_risks(up_sql)
GenRisks(w) ==
  /\ frames[w].pc = "risks"
  /\ frames' = [frames EXCEPT ![w].risks = AppendRisks(NewList(left.risks), Upper(frames[w].sql)),
                              ![w].pc = "additive",
                              ![w].overlapped = @ \/ OthersBusy(w)]
  /\ UNCHANGED <<registry, schema, advisor_vars, classifier_vars, audit_vars, returned, left>>

\* is_additive = self._is_additive(up_sql)
GenAdditive(w) ==
  /\ frames[w].pc = "additive"
  /\ frames' = [frames EXCEPT ![w].additive = is_additive(frames[w].sql),
                              ![w].pc = "estimate",
                              ![w].overlapped = @ \/ OthersBusy(w)]
  /\ UNCHANGED <<registry, schema, advisor_vars, classifier_vars, audit_vars, returned, left>>

\* estimated_runtime = self._estimate_runtime(up_sql, estimated_rows)
GenEstimate(w) ==
  /\ frames[w].pc = "estimate"
  /\ frames' = [frames EXCEPT ![w].runtime = estimate_runtime(frames[w].sql, frames[w].rows),
                              ![w].pc = "assemble",
                              ![w].overlapped = @ \/ OthersBusy(w)]
  /\ UNCHANGED <<registry, schema, advisor_vars, classifier_vars, audit_vars, returned, left>>

\* the file is assembled and returned
GenReturn(w) ==
  /\ frames[w].pc = "assemble"
  /\ \E j \in 1..Len(Clock) :
       LET f == frames[w]
       IN  /\ returned' = returned \cup
                 { [worker |-> w, kind |-> "generate", sql |-> f.sql, rows |-> f.rows,
                    overlapped |-> f.overlapped \/ OthersBusy(w),
                    verdict |-> [additive |-> f.additive, findings |-> f.risks,
                                 warnings |-> << >>, runtime |-> f.runtime],
                    content |-> AssembleContent(MigrationName, f.sql, ParDownSql, f.rows,
                                                f.risks, f.additive, f.runtime,
                                                Clock[1], Clock[j])] }
           /\ left' = [left EXCEPT !.risks = f.risks]
  /\ frames' = [frames EXCEPT ![w] = IdleFrame]
  /\ UNCHANGED <<registry, schema, advisor_vars, classifier_vars, audit_vars>>

\* a worker calls validate_migration on a file holding one of the texts
CallValidate(w) ==
  /\ ~Busy(w)
  /\ Cardinality(returned) + Cardinality({ o \in Workers : Busy(o) }) < MaxCalls
  /\ \E text \in ParTexts :
       frames' = [frames EXCEPT ![w] =
                    [IdleFrame EXCEPT !.pc = "read", !.kind = "validate", !.sql = text,
                                      !.overlapped = OthersBusy(w)]]
  /\ UNCHANGED <<registry, schema, advisor_vars, classifier_vars, audit_vars, returned, left>>

\* if not path.exists(): return False, ["File not found: ..."], []
\* content_upper = content.upper(); issues = []; warnings = []
ValRead(w) ==
  /\ frames[w].pc = "read"
  /\ IF ~file_exists
     THEN /\ returned' = returned \cup
                { [worker |-> w, kind |-> "validate", sql |-> frames[w].sql,
                   rows |-> frames[w].rows,
                   overlapped |-> frames[w].overlapped \/ OthersBusy(w),
                   verdict |-> [additive |-> FALSE,
                                findings |-> << "File not found: " \o MigrationPath >>,
                                warnings |-> << >>, runtime |-> ""],
                   content |-> ""] }
          /\ frames' = [frames EXCEPT ![w] = IdleFrame]
     ELSE /\ frames' = [frames EXCEPT ![w].content_upper = Upper(frames[w].sql),
                                      ![w].issues = NewList(left.issues),
                                      ![w].warnings = NewList(left.warnings),
                                      ![w].pc = "issues",
                                      ![w].overlapped = @ \/ OthersBusy(w)]
          /\ UNCHANGED returned
  /\ UNCHANGED <<registry, schema, advisor_vars, classifier_vars, audit_vars, left>>

\* the loop over DANGEROUS_OPS
ValIssues(w) ==
  /\ frames[w].pc = "issues"
  /\ frames' = [frames EXCEPT ![w].issues =
                                 @ \o DangerousIssues(registry.DANGEROUS_OPS,
                                                      frames[w].content_upper),
                              ![w].pc = "warnings",
                              ![w].overlapped = @ \/ OthersBusy(w)]
  /\ UNCHANGED <<registry, schema, advisor_vars, classifier_vars, audit_vars, returned, left>>

\* the index, RLS and rollback checks
ValWarnings(w) ==
  /\ frames[w].pc = "warnings"
  /\ frames' = [frames EXCEPT ![w].warnings =
                                 @ \o IndexWarning(frames[w].content_upper)
                                   \o RlsWarnings(frames[w].content_upper)
                                   \o RollbackWarning(frames[w].content_upper),
                              ![w].pc = "verdict",
                              ![w].overlapped = @ \/ OthersBusy(w)]
  /\ UNCHANGED <<registry, schema, advisor_vars, classifier_vars, audit_vars, returned, left>>

\* is_safe = len(issues) == 0; return is_safe, issues, warnings
ValReturn(w) ==
  /\ frames[w].pc = "verdict"
  /\ LET f == frames[w]
     IN  /\ returned' = returned \cup
               { [worker |-> w, kind |-> "validate", sql |-> f.sql, rows |-> f.rows,
                  overlapped |-> f.overlapped \/ OthersBusy(w),
                  verdict |-> [additive |-> Len(f.issues) = 0, findings |-> f.issues,
                               warnings |-> f.warnings, runtime |-> ""],
                  content |-> ""] }
         /\ left' = [left EXCEPT !.issues = f.issues, !.warnings = f.warnings]
  /\ frames' = [frames EXCEPT ![w] = IdleFrame]
  /\ UNCHANGED <<registry, schema, advisor_vars, classifier_vars, audit_vars>>

NextPar ==
  \E w \in Workers :
    \/ CallGenerate(w) \/ GenRisks(w) \/ GenAdditive(w) \/ GenEstimate(w) \/ GenReturn(w)
    \/ CallValidate(w) \/ ValRead(w) \/ ValIssues(w) \/ ValWarnings(w) \/ ValReturn(w)

SpecPar == InitPar /\ [][NextPar]_vars

(***************************************************************************)
(* The query advisor: one call of analyze_query or of                      *)
(* QueryOptimizerTool._run on a query text.                                *)
(***************************************************************************)
MaxClauses == 2

QueryHeads == { "SELECT * FROM t", "select id from t" }

\* clauses a query is made of, in the letter case and spacing a user may type
QueryClauses ==
  { "WHERE user_id = $1",
    "Where\tUser_Id=$1",
    "where User_Id = :uid",
    "where account_id = 7",
    "WHERE amount > 5",
    "WHERE created_at > now()",
    "and updated_at\nBETWEEN a AND b",
    "ORDER BY transaction_date",
    "order by name",
    "LIMIT 10" }

\* a head followed by exactly n clauses, separated by one space
RECURSIVE QueriesOf(_)
QueriesOf(n) ==
  IF n = 0 THEN QueryHeads
  ELSE { q \o " " \o c : q \in QueriesOf(n - 1), c \in QueryClauses }

\* texts that are no query at all
NonQueries == { "", "   ", "drop it like {table}", "where", "SELECT *", "{}{fk}}{" }

Queries == UNION { QueriesOf(n) : n \in 0..MaxClauses } \cup NonQueries

\* table names a caller passes; main() passes 'transactions'
TableHints == { "transactions", "t" }

InitQuery ==
  /\ registry = InitRegistry
  /\ schema = NoSchema
  /\ sql = "" /\ file_exists = FALSE /\ vm = NoResult /\ gen = NoResult
  /\ AuditIdle
  /\ ParIdle
  /\ query_text \in Queries
  /\ advice = NoResult
  /\ opt = NoResult

\* a call analyze_query(query, hint), or analyze_query(query) with the default
AnalyzeQuery ==
  /\ advice = NoResult /\ opt = NoResult
  /\ \/ \E hint \in TableHints :
          advice' = [hint |-> << hint >>] @@ analyze_query(registry.QUERY_PATTERNS, query_text, hint)
     \/ advice' = [hint |-> << >>] @@ analyze_query(registry.QUERY_PATTERNS, query_text, DefaultTableName)
  /\ UNCHANGED <<registry, schema, classifier_vars, audit_vars, par_vars, query_text, opt>>

\* a call QueryOptimizerTool._run(query)
OptimizeQuery ==
  /\ advice = NoResult /\ opt = NoResult
  /\ opt' = QueryOptimizer_run(query_text)
  /\ UNCHANGED <<registry, schema, classifier_vars, audit_vars, par_vars, query_text, advice>>

NextQuery == AnalyzeQuery \/ OptimizeQuery

SpecQuery == InitQuery /\ [][NextQuery]_vars

(***************************************************************************)
(* The three components side by side: a run is one invocation of the       *)
(* program whose input was supplied.                                       *)
(***************************************************************************)
InitCase ==
  /\ registry = InitRegistry
  /\ schema = NoSchema
  /\ vm = NoResult /\ gen = NoResult
  /\ advice = NoResult /\ opt = NoResult
  /\ audit = "idle" /\ todo = {} /\ rls_enabled = {} /\ tables_created = {}
  /\ result = NoResult /\ report = NoResult /\ first = NoResult
  /\ ParIdle
  /\ \/ sql \in TextsOf(1) /\ file_exists = TRUE /\ query_text = "" /\ files = NoDir
     \/ sql = "" /\ file_exists = FALSE /\ query_text \in QueriesOf(1) \cup (NonQueries \ { "" }) /\ files = NoDir
     \/ sql = "" /\ file_exists = FALSE /\ query_text = "" /\ files \in Directories

NextCase ==
  \/ sql # "" /\ Next
  \/ query_text # "" /\ NextQuery
  \/ files # NoDir /\ NextAudit

SpecCase == InitCase /\ [][NextCase]_vars

(***************************************************************************)
(* The engine on arbitrary text: the same text is given to the migration   *)
(* classifier (as file content and as UP SQL) and to the query advisor.    *)
(***************************************************************************)
\* empty text, malformed SQL and text that is no SQL
ArbitraryTexts ==
  { "", "   ", "\n\t", "drop it like {table}", "{}{fk}}{", "');--",
    "WHERE user_id = = )(", "where created_at >>> order by updated_at",
    "CREATE INDEX", "add column default drop table create table", "SELECT *" }

InitText ==
  /\ registry = InitRegistry
  /\ schema = NoSchema
  /\ sql \in ArbitraryTexts
  /\ file_exists = TRUE
  /\ query_text = sql
  /\ vm = NoResult /\ gen = NoResult
  /\ advice = NoResult /\ opt = NoResult
  /\ AuditIdle
  /\ ParIdle

NextText == Next \/ NextQuery

SpecText == InitText /\ [][NextText]_vars

(***************************************************************************)
(* A generated migration under the validator: MigrationGeneratorTool._run   *)
(* produces the text of a migration file, the file is written under the     *)
(* name its header gives and validate_migration is pointed at it.           *)
(***************************************************************************)
InitFile ==
  /\ registry = InitRegistry
  /\ schema = NoSchema
  /\ sql \in TextsOf(1)
  /\ file_exists = FALSE
  /\ vm = NoResult
  /\ gen = NoResult
  /\ AuditIdle
  /\ ParIdle
  /\ AdvisorIdle

\* the tool's output saved as the migration file, then a call of
\* validate_migration on that file: read_text yields the generated text
ValidateGenerated ==
  /\ gen # NoResult /\ vm = NoResult
  /\ file_exists' = TRUE
  /\ vm' = validate_migration(registry.DANGEROUS_OPS, MigrationPath, TRUE, gen.content)
  /\ UNCHANGED <<registry, schema, advisor_vars, sql, gen, audit_vars, par_vars>>

NextFile == GenerateMigration \/ ValidateGenerated

SpecFile == InitFile /\ [][NextFile]_vars

(***************************************************************************)
(* Properties of the migration classifier.                                 *)
(***************************************************************************)
\* the upper-cased text contains the marker
HasMarker(text, m) == Contains(Upper(text), m)

Validated == vm # NoResult /\ file_exists
Generated == gen # NoResult

\* the checklist line of a generated file
ChecklistShows(content, answer) ==
  Contains(Chars(content), "-- [ ] Is this migration additive? " \o answer \o "\n")

\* C1: a text whose upper-cased form contains DROP TABLE is reported as not
\* additive with a non-empty list of blocking issues that holds the
\* table-deletion entry: is_safe = False for validate_migration, and for the
\* generator the checklist shows NO and the risks hold 'DROP TABLE detected'.
C1_DropTableIsBlocking ==
  /\ (Validated /\ HasMarker(sql, "DROP TABLE")) =>
        /\ vm.is_safe = FALSE
        /\ Len(vm.issues) > 0
        /\ InSeq(DANGEROUS_OPS[1].description, vm.issues)
  /\ (Generated /\ HasMarker(sql, "DROP TABLE")) =>
        /\ gen.is_additive = FALSE
        /\ ChecklistShows(gen.content, CHECK_NO)
        /\ ~ChecklistShows(gen.content, CHECK_YES)
        /\ InSeq(R_DROP_TABLE, gen.risks)
        /\ Contains(Chars(gen.content), "DROP TABLE detected")

C1_Witness ==
  /\ Generated
  /\ sql = "DROP TABLE t;"
  /\ gen.is_additive = FALSE
  /\ InSeq(R_DROP_TABLE, gen.risks)
\* C2: the verdict of validate_migration has is_safe true exactly when the
\* list of blocking issues is empty; warnings never change it.
C2_SafeIffNoIssues ==
  vm # NoResult => (vm.is_safe <=> Len(vm.issues) = 0)

C2_Witness ==
  /\ Validated
  /\ vm.is_safe = TRUE
  /\ Len(vm.issues) = 0
  /\ Len(vm.warnings) = 3

\* a column type change: ALTER COLUMN <column> TYPE <type>
HasTypeChange(text) ==
  LET cs == Upper(text)
      kw == Chars("ALTER COLUMN ")
  IN  \E i \in 1..Len(cs) :
        /\ StartsAt(cs, i, kw)
        /\ LET j == WordRunEnd(cs, i + Len(kw))
           IN  j >= i + Len(kw) /\ StartsAt(cs, j + 1, Chars(" TYPE "))

Destructive(text) ==
  LET up == Upper(text)
  IN  \/ Contains(up, "DROP TABLE")
      \/ Contains(up, "DROP COLUMN")
      \/ Contains(up, "TRUNCATE")
      \/ HasTypeChange(text)

\* C3: a migration the classifier reports as additive (is_safe of
\* validate_migration, _is_additive of the generator) holds no destructive
\* operation: no table drop, no column drop, no truncate and no column type
\* change ALTER COLUMN <column> TYPE <type>.
C3_AdditiveHasNoDestructiveOp ==
  /\ (Validated /\ vm.is_safe) => ~Destructive(sql)
  /\ (Generated /\ gen.is_additive) => ~Destructive(sql)

\* CREATE INDEX without CONCURRENTLY anywhere in the text
LocksTable(text) ==
  LET up == Upper(text)
  IN  Contains(up, "CREATE INDEX") /\ ~Contains(up, "CONCURRENTLY")

\* C4: a text with CREATE INDEX and without CONCURRENTLY gets the 'will lock
\* table' finding (a warning of validate_migration, a risk of the generator);
\* the finding is no blocking issue and leaves the additive flag to the
\* dangerous markers alone; 'CREATE INDEX idx ON t(col);' at 500000 rows is
\* additive, carries the finding and is bucketed LongMinutes.
C4_NonConcurrentIndexWarns ==
  /\ (Validated /\ LocksTable(sql)) =>
        /\ InSeq(W_INDEX_LOCK, vm.warnings)
        /\ ~InSeq(W_INDEX_LOCK, vm.issues)
        /\ (Len(vm.issues) = 0 => vm.is_safe)
  /\ (Generated /\ LocksTable(sql)) =>
        /\ InSeq(R_INDEX_LOCK, gen.risks)
        /\ (gen.risks = << R_INDEX_LOCK >> /\ ~HasMarker(sql, "TRUNCATE")) => gen.is_additive
  /\ (Validated /\ sql = "CREATE INDEX idx ON t(col);") =>
        vm.is_safe /\ InSeq(W_INDEX_LOCK, vm.warnings)
  /\ (Generated /\ sql = "CREATE INDEX idx ON t(col);" /\ gen.estimated_rows = 500000) =>
        /\ gen.is_additive
        /\ ChecklistShows(gen.content, CHECK_YES)
        /\ gen.risks = << R_INDEX_LOCK >>
        /\ gen.estimated_runtime = "1-5 minutes"

C4_Witness ==
  /\ Generated
  /\ sql = "CREATE INDEX idx ON t(col);"
  /\ gen.estimated_rows = 500000
  /\ gen.is_additive
  /\ InSeq(R_INDEX_LOCK, gen.risks)

\* C5: with CREATE TABLE in the text, validate_migration warns 'New table
\* without RLS enabled' exactly when ENABLE ROW LEVEL SECURITY is absent and
\* 'New table without RLS policies' exactly when CREATE POLICY is absent,
\* whether or not blocking issues were found; without CREATE TABLE it gives
\* neither warning.
C5_RlsWarnings ==
  Validated =>
    /\ InSeq(W_NO_RLS, vm.warnings) <=>
         (HasMarker(sql, "CREATE TABLE") /\ ~HasMarker(sql, "ENABLE ROW LEVEL SECURITY"))
    /\ InSeq(W_NO_POLICY, vm.warnings) <=>
         (HasMarker(sql, "CREATE TABLE") /\ ~HasMarker(sql, "CREATE POLICY"))
    /\ (sql = "DROP TABLE t; CREATE TABLE t(id UUID);") =>
         /\ ~vm.is_safe
         /\ InSeq(DANGEROUS_OPS[1].description, vm.issues)
         /\ InSeq(W_NO_RLS, vm.warnings)

C5_Witness ==
  /\ Validated
  /\ sql = "DROP TABLE t; CREATE TABLE t(id UUID);"
  /\ vm.issues = << DANGEROUS_OPS[1].description >>
  /\ InSeq(W_NO_RLS, vm.warnings)
  /\ InSeq(W_NO_POLICY, vm.warnings)

\* C6: validate_migration warns 'No rollback plan documented' exactly when
\* the upper-cased text holds neither ROLLBACK nor '-- DOWN'; the empty text
\* gives no blocking issue, that one warning and an additive verdict.
C6_RollbackWarning ==
  Validated =>
    /\ InSeq(W_NO_ROLLBACK, vm.warnings) <=>
         (~HasMarker(sql, "ROLLBACK") /\ ~HasMarker(sql, "-- DOWN"))
    /\ (sql = "") => (vm.issues = << >> /\ vm.warnings = << W_NO_ROLLBACK >> /\ vm.is_safe)

C6_Witness ==
  /\ Validated
  /\ sql = ""
  /\ vm.warnings = << W_NO_ROLLBACK >>
  /\ vm.is_safe

\* the runtime bucket a label of _estimate_runtime stands for
Bucket(label) ==
  CASE label = "<1 second" -> "SubSecond"
    [] label = "<1 second (nullable column)" -> "SubSecond"
    [] label = "1-30 seconds" -> "ShortSeconds"
    [] label = "5-15 seconds" -> "ShortSeconds"
    [] label = "1-5 minutes" -> "LongMinutes"
    [] label = "Unknown - requires testing" -> "Unknown"
    [] OTHER -> "NoBucket"

\* the priority table of the runtime estimator, on buckets
PriorityBucket(text, rows) ==
  LET up == Upper(text)
  IN  IF Contains(up, "CREATE TABLE") THEN "SubSecond"
      ELSE IF Contains(up, "ADD COLUMN")
           THEN (IF Contains(up, "DEFAULT") THEN "ShortSeconds" ELSE "SubSecond")
      ELSE IF Contains(up, "CREATE INDEX")
           THEN (IF rows >= 100000 THEN "LongMinutes" ELSE "ShortSeconds")
      ELSE "Unknown"

\* C7: the runtime estimate is the bucket of the first matching rule:
\* CREATE TABLE => SubSecond; else ADD COLUMN => SubSecond without DEFAULT,
\* ShortSeconds with it; else CREATE INDEX => ShortSeconds below 100000 rows,
\* LongMinutes from 100000 on; else Unknown.  CREATE TABLE with CREATE INDEX
\* is SubSecond at every row count.
C7_RuntimePriority ==
  Generated =>
    /\ Bucket(gen.estimated_runtime) = PriorityBucket(sql, gen.estimated_rows)
    /\ Bucket(gen.estimated_runtime) \in { "SubSecond", "ShortSeconds", "LongMinutes", "Unknown" }
    /\ Bucket(gen.estimated_runtime) # "SubSecond" =>
          ~(HasMarker(sql, "CREATE TABLE") /\ HasMarker(sql, "CREATE INDEX"))

C7_Witness ==
  /\ Generated
  /\ HasMarker(sql, "CREATE TABLE")
  /\ HasMarker(sql, "CREATE INDEX")
  /\ gen.estimated_rows >= RowThreshold
  /\ Bucket(gen.estimated_runtime) = "SubSecond"
\* the entries of DANGEROUS_OPS whose marker occurs in the upper-cased text
MatchingOps(text) == { k \in 1..Len(DANGEROUS_OPS) : HasMarker(text, DANGEROUS_OPS[k].op) }

\* the i-th of a set of registry positions, counted in registry order
NthOf(ks, i) == CHOOSE k \in ks : Cardinality({ j \in ks : j <= k }) = i

\* C19: the blocking issues of validate_migration are the descriptions of the
\* DANGEROUS_OPS entries whose marker occurs in the upper-cased text, in
\* registry order, whatever the order and the number of the occurrences in
\* the text; every matching entry is reported once and none hides another.
C19_IssuesInRegistryOrder ==
  Validated =>
    /\ Len(vm.issues) = Cardinality(MatchingOps(sql))
    /\ \A i \in 1..Len(vm.issues) :
         vm.issues[i] = DANGEROUS_OPS[NthOf(MatchingOps(sql), i)].description
    /\ sql = "Truncate t; DROP TABLE t;" =>
         vm.issues = << DANGEROUS_OPS[1].description, DANGEROUS_OPS[4].description >>
    /\ sql = "DROP TABLE t; DROP TABLE t;" => vm.issues = << DANGEROUS_OPS[1].description >>

\* the markers in the text in the reverse of registry order
C19_Witness ==
  /\ Validated
  /\ sql = "rename table a to b; alter table t drop column c;"
  /\ vm.issues = << DANGEROUS_OPS[2].description, DANGEROUS_OPS[6].description >>

\* C20: in MigrationGeneratorTool._run the additive flag, the risks and the
\* runtime estimate depend on the UP SQL and the row count only: they are the
\* same for every DOWN SQL, so an ADD COLUMN migration is marked additive
\* 'YES' although its DOWN SQL holds DROP COLUMN or DROP TABLE; both texts
\* stand unchanged in the generated file.
C20_DownSqlNotClassified ==
  Generated =>
    /\ \A d \in DownTexts :
         LET g == MigrationGenerator_run(MigrationName, sql, d, gen.estimated_rows, Clock[1], Clock[1])
         IN  /\ g.risks = gen.risks
             /\ g.is_additive = gen.is_additive
             /\ g.estimated_runtime = gen.estimated_runtime
    /\ sql = "ALTER TABLE t ADD COLUMN n TEXT;" =>
         /\ gen.is_additive
         /\ gen.risks = << >>
         /\ ChecklistShows(gen.content, CHECK_YES)
    /\ Contains(Chars(gen.content), "-- UP MIGRATION\nBEGIN;\n" \o sql \o "\nCOMMIT;\n")
    /\ Contains(Chars(gen.content), "-- DOWN MIGRATION (ROLLBACK)\nBEGIN;\n" \o gen.down_sql \o "\nCOMMIT;\n")

\* an additive UP migration whose DOWN migration drops the column
C20_Witness ==
  /\ Generated
  /\ sql = "ALTER TABLE t ADD COLUMN n TEXT;"
  /\ gen.down_sql = "ALTER TABLE users DROP COLUMN notes;"
  /\ gen.is_additive
  /\ ChecklistShows(gen.content, CHECK_YES)

\* the generator's findings that block: its risks other than the index lock,
\* which the validator files under warnings
BlockingFindings(risks) == SelectSeq(risks, LAMBDA r : r # R_INDEX_LOCK)

\* C21: the two implementations of the additive decision agree: on every SQL
\* text is_safe of validate_migration equals _is_additive of the generator on
\* the same text, and the generator's additive flag is true exactly when its
\* own list of blocking findings for that text is empty.
C21_AdditiveDecisionsAgree ==
  /\ Validated => (vm.is_safe <=> is_additive(sql))
  /\ Generated =>
       /\ gen.is_additive <=>
            validate_migration(registry.DANGEROUS_OPS, MigrationPath, TRUE, sql).is_safe
       /\ gen.is_additive <=> BlockingFindings(gen.risks) = << >>

\* the generated file has been validated
FileValidated == gen # NoResult /\ vm # NoResult /\ file_exists

\* C22: every migration file produced by MigrationGeneratorTool._run whose
\* safety checklist marks the migration additive ('YES') is classified as safe
\* (no blocking issue) by validate_migration on that file, for every UP SQL
\* and DOWN SQL.
C22_MarkedAdditiveValidatesSafe ==
  (FileValidated /\ ChecklistShows(gen.content, CHECK_YES)) =>
     /\ vm.is_safe
     /\ vm.issues = << >>

(***************************************************************************)
(* Properties of the query advisor.                                        *)
(***************************************************************************)
\* analyze_query has returned a list
Advised == advice # NoResult /\ advice.raised = ""
Optimized == opt # NoResult

\* an index-creation statement
IsIndexStatement(text) == Contains(Upper(text), "CREATE INDEX")

\* the positions of a list whose entry mentions m
Mentioning(list, m) == { k \in 1..Len(list) : Contains(Chars(list[k]), m) }

\* the issues of the recommendations analyze_query returned
AdviceIssues == [ k \in 1..Len(advice.recommendations) |-> advice.recommendations[k].issue ]

\* C13: when the upper-cased query contains 'SELECT *', both advisors report
\* the 'fetches all columns' issue as the first entry of their advice, with a
\* suggestion that is no index-creation statement; when it does not, neither
\* reports that issue.
C13_SelectStarFirst ==
  /\ (Advised /\ HasMarker(query_text, "SELECT *")) =>
        /\ Mentioning(AdviceIssues, "fetches all columns") = { 1 }
        /\ ~IsIndexStatement(advice.recommendations[1].suggestion)
  /\ (Advised /\ ~HasMarker(query_text, "SELECT *")) =>
        Mentioning(AdviceIssues, "fetches all columns") = {}
  /\ (Optimized /\ HasMarker(query_text, "SELECT *")) =>
        /\ Mentioning(opt.issues, "fetches all columns") = { 1 }
        /\ Len(opt.recommendations) = Len(opt.issues)
        /\ ~IsIndexStatement(opt.recommendations[1])
  /\ (Optimized /\ ~HasMarker(query_text, "SELECT *")) =>
        Mentioning(opt.issues, "fetches all columns") = {}

\* SELECT * together with an unfiltered scan and a matching query shape
C13_Witness ==
  /\ Advised
  /\ HasMarker(query_text, "SELECT *")
  /\ ~HasMarker(query_text, "WHERE")
  /\ Len(advice.recommendations) >= 3
  /\ advice.recommendations[1] = A_SELECT_STAR

\* C14: both advisors report the 'No WHERE clause' issue exactly when the
\* upper-cased query contains neither WHERE nor LIMIT; a query with a LIMIT
\* and no WHERE, or with a WHERE and no LIMIT, does not get it.
C14_NoWhereIffNeither ==
  /\ Advised =>
        (InSeq(A_NO_WHERE, advice.recommendations)
           <=> (~HasMarker(query_text, "WHERE") /\ ~HasMarker(query_text, "LIMIT")))
  /\ Advised => Cardinality(Mentioning(AdviceIssues, "No WHERE clause")) <= 1
  /\ Optimized =>
        (Mentioning(opt.issues, "No WHERE clause") # {}
           <=> (~HasMarker(query_text, "WHERE") /\ ~HasMarker(query_text, "LIMIT")))

\* a LIMIT without WHERE: no such issue
C14_Witness ==
  /\ Advised
  /\ HasMarker(query_text, "LIMIT")
  /\ ~HasMarker(query_text, "WHERE")
  /\ Mentioning(AdviceIssues, "No WHERE clause") = {}
  /\ Len(advice.recommendations) > 0

\* the table name analyze_query worked with
TableOf(a) == IF a.hint = << >> THEN "TABLE" ELSE a.hint[1]

\* the entries of the advice with a given issue
EntriesFor(issue) == SelectSeq(advice.recommendations, LAMBDA r : r.issue = issue)

\* C15: for a query with a filter 'WHERE user_id =' in any letter case and a
\* table-name hint T, analyze_query returns a user-lookup entry that suggests
\* 'CREATE INDEX CONCURRENTLY idx_T_user_id ON T(user_id);'; without a hint
\* T is the placeholder name TABLE.
C15_UserLookupTemplated ==
  (Advised /\ HasMarker(query_text, "WHERE USER_ID =")) =>
     EntriesFor("User-based lookup detected") =
       << [issue |-> "User-based lookup detected",
           suggestion |-> "CREATE INDEX CONCURRENTLY idx_" \o TableOf(advice)
                            \o "_user_id ON " \o TableOf(advice) \o "(user_id);"] >>

\* the filter in mixed case, no hint: the placeholder table name
C15_Witness ==
  /\ Advised
  /\ advice.hint = << >>
  /\ HasMarker(query_text, "WHERE USER_ID =")
  /\ ~Contains(Chars(query_text), "WHERE")
  /\ InSeq([issue |-> "User-based lookup detected",
            suggestion |-> "CREATE INDEX CONCURRENTLY idx_TABLE_user_id ON TABLE(user_id);"],
           advice.recommendations)

\* the issues analyze_query can report, in the order of its rules
RuleOrder ==
  << "SELECT * fetches all columns", "No WHERE clause", "User-based lookup detected",
     "Date range query detected", "Ordered by date detected", "Foreign key lookup detected" >>

\* the place of an issue in RuleOrder
RuleIndex(issue) == CHOOSE k \in 1..Len(RuleOrder) : RuleOrder[k] = issue

\* whether the rule of an issue is triggered by the upper-cased query
Triggered(issue, query_upper) ==
  CASE issue = RuleOrder[1] -> Contains(query_upper, "SELECT *")
    [] issue = RuleOrder[2] -> ~Contains(query_upper, "WHERE") /\ ~Contains(query_upper, "LIMIT")
    [] OTHER -> re_search(QUERY_PATTERNS[RuleIndex(issue) - 2].pattern, query_upper)

\* C16: the advice of analyze_query lists its entries in the fixed order
\* SELECT *, no WHERE, user_lookup, date_range, order_by_date, foreign_key;
\* each triggered rule gives exactly one entry and entries are not
\* deduplicated: a query matching date_range and order_by_date gets two
\* entries with the same suggestion, and a 'WHERE user_id =' query gets both
\* the user_lookup and the foreign_key entry.
C16_OrderedNoDedup ==
  Advised =>
    /\ \A k \in 1..Len(AdviceIssues) : InSeq(AdviceIssues[k], RuleOrder)
    /\ \A j, k \in 1..Len(AdviceIssues) :
          j < k => RuleIndex(AdviceIssues[j]) < RuleIndex(AdviceIssues[k])
    /\ \A r \in 1..Len(RuleOrder) :
          Triggered(RuleOrder[r], Upper(query_text)) <=> InSeq(RuleOrder[r], AdviceIssues)
    /\ (InSeq(RuleOrder[4], AdviceIssues) /\ InSeq(RuleOrder[5], AdviceIssues)) =>
          /\ Len(EntriesFor(RuleOrder[4])) = 1 /\ Len(EntriesFor(RuleOrder[5])) = 1
          /\ EntriesFor(RuleOrder[4])[1].suggestion = EntriesFor(RuleOrder[5])[1].suggestion
    /\ HasMarker(query_text, "WHERE USER_ID =") =>
          InSeq(RuleOrder[3], AdviceIssues) /\ InSeq(RuleOrder[6], AdviceIssues)

\* both date rules fire at once
C16_Witness ==
  /\ Advised
  /\ HasMarker(query_text, "CREATED_AT >")
  /\ HasMarker(query_text, "ORDER BY TRANSACTION_DATE")
  /\ \E k \in 1..(Len(advice.recommendations) - 1) :
        /\ advice.recommendations[k].issue = "Date range query detected"
        /\ advice.recommendations[k + 1].issue = "Ordered by date detected"
        /\ advice.recommendations[k].suggestion = advice.recommendations[k + 1].suggestion

(***************************************************************************)
(* Properties of the compliance auditor.                                   *)
(***************************************************************************)
\* the union over all migration files of the table names extracted from each
AllCreated(dir) == UNION { CreatedIn(dir[f]) : f \in GlobSql(dir) }
AllRlsEnabled(dir) == UNION { RlsIn(dir[f]) : f \in GlobSql(dir) }

Audited == audit = "done" /\ files # NoDir
Reported == report # NoResult /\ files # NoDir

\* C9: the audit result (tables_created, rls_enabled and the missing list
\* derived from them) is the same in whatever order the files are visited,
\* and is unchanged when a file is added that only repeats CREATE TABLE /
\* ENABLE ROW LEVEL SECURITY statements for tables already seen.
C9_OrderAndRepeatInvariant ==
  /\ Audited =>
        /\ result.tables_created = AllCreated(files)
        /\ result.rls_enabled = AllRlsEnabled(files)
  /\ Reported =>
        report.missing_rls =
          missing_rls(REQUIRED_RLS_TABLES,
                      [tables_created |-> AllCreated(files), rls_enabled |-> AllRlsEnabled(files)])
  /\ (Audited /\ first # NoResult) => result = first.result
  /\ (Reported /\ first # NoResult) => report = first.report

C9_Witness ==
  /\ Reported
  /\ first # NoResult
  /\ report = first.report
  /\ Cardinality(GlobSql(files)) = 3
  /\ files["m1.sql"] # files["m2.sql"]
  /\ result.rls_enabled # {}
  /\ Len(report.missing_rls) > 0

\* C10: the tables reported as missing RLS are requiredTables /\ tablesCreated
\* - tablesWithSecurityEnabled - exemptTables, with both table sets the unions
\* over all files; no exempt table and no table outside the required list is
\* reported.
C10_MissingFormula ==
  Reported =>
    /\ SeqToSet(report.missing_rls) =
         ((SeqToSet(REQUIRED_RLS_TABLES) \cap AllCreated(files)) \ AllRlsEnabled(files))
           \ SeqToSet(EXEMPT_TABLES)
    /\ SeqToSet(report.missing_rls) \cap SeqToSet(EXEMPT_TABLES) = {}
    /\ SeqToSet(report.missing_rls) \subseteq SeqToSet(REQUIRED_RLS_TABLES)

C10_Witness ==
  /\ Reported
  /\ report.missing_rls = << "profiles" >>
  /\ "merchant_database" \in result.tables_created
  /\ "merchant_database" \notin result.rls_enabled
\* C11: when every required table is created in some file and security-enabled
\* in some file (the same or another, visited earlier or later), the missing
\* list is empty and the report says so; which file holds which statement
\* plays no role.
C11_AllSecuredNothingMissing ==
  (Reported /\ SeqToSet(REQUIRED_RLS_TABLES) \subseteq (AllCreated(files) \cap AllRlsEnabled(files))) =>
     /\ report.missing_rls = << >>
     /\ report.verdict = "All user tables have RLS enabled!"

\* every table created in one file and secured in another, no file complete
C11_Witness ==
  /\ Reported
  /\ first = NoResult
  /\ Cardinality(GlobSql(files)) = 2
  /\ \A f \in GlobSql(files) :
        ~(SeqToSet(REQUIRED_RLS_TABLES) \subseteq (CreatedIn(files[f]) \cap RlsIn(files[f])))
  /\ CreatedIn(files["m1.sql"]) \cap RlsIn(files["m1.sql"]) = {}
  /\ SeqToSet(REQUIRED_RLS_TABLES) \subseteq (AllCreated(files) \cap AllRlsEnabled(files))
  /\ report.missing_rls = << >>
\* what a run of the auditor on a directory amounts to
Outcome(dir) ==
  IF dir = NoDir THEN "directory missing"
  ELSE IF GlobSql(dir) = {} THEN "no migrations found"
  ELSE IF (SeqToSet(REQUIRED_RLS_TABLES) \cap AllCreated(dir)) \subseteq AllRlsEnabled(dir)
       THEN "all tables compliant"
  ELSE "tables missing RLS"

\* what audit_rls_from_migrations returns for a directory
ReturnOf(dir) ==
  IF dir = NoDir THEN [error |-> "Directory not found: " \o MigrationsDir]
  ELSE [tables_created |-> AllCreated(dir), rls_enabled |-> AllRlsEnabled(dir)]

\* C12: a missing migrations directory gives an error result, never an empty
\* report, and main never reports 'All user tables have RLS enabled!' for it;
\* the return value alone tells 'directory missing', 'no migrations found'
\* and 'all tables compliant' apart: two directories with the same return
\* value have the same outcome.
C12_OutcomesTellApart ==
  /\ (audit = "done" /\ files = NoDir) =>
        /\ "error" \in DOMAIN result
        /\ result # [tables_created |-> {}, rls_enabled |-> {}]
  /\ (report # NoResult /\ files = NoDir) =>
        /\ report.kind = "static checklist"
        /\ "verdict" \notin DOMAIN report
  /\ audit = "done" =>
        \A d \in Directories \cup { NoDir } :
          ReturnOf(d) = result => Outcome(d) = Outcome(files)
\* the required tables that exist in the database without row-level security
Unsecured(db) == { t \in SeqToSet(REQUIRED_RLS_TABLES) : t \in DOMAIN db /\ ~db[t] }

\* C23: after any sequence of CREATE TABLE, ENABLE ROW LEVEL SECURITY, DISABLE
\* ROW LEVEL SECURITY and DROP TABLE statements applied in order, every
\* required table that exists in the resulting schema without row-level
\* security is in the auditor's missing list; so when the auditor reports
\* 'All user tables have RLS enabled', every required table that exists has
\* row-level security enabled.
C23_UnsecuredTablesReported ==
  Reported =>
    /\ \A t \in Unsecured(schema) : InSeq(t, report.missing_rls)
    /\ report.verdict = "All user tables have RLS enabled!" => Unsecured(schema) = {}

(***************************************************************************)
(* Properties of all components.                                           *)
(***************************************************************************)
\* str.swapcase on ASCII text
SwapChar(c) == IF c \in DOMAIN ToUpperMap THEN ToUpperMap[c] ELSE LowerChar(c)

\* the characters of a text in another letter case: all upper, all lower,
\* every letter swapped, upper and lower in turn
Recased(text, v) ==
  LET cs == Chars(text)
  IN  CASE v = 1 -> Upper(text)
        [] v = 2 -> Lower(text)
        [] v = 3 -> [ i \in 1..Len(cs) |-> SwapChar(cs[i]) ]
        [] v = 4 -> [ i \in 1..Len(cs) |-> IF i % 2 = 0 THEN UpperChar(cs[i]) ELSE LowerChar(cs[i]) ]

\* the texts that differ from a text in letter case only
CaseVariants(text) == { StrOf(Recased(text, v), 1, Len(text)) : v \in 1..4 }

\* the directories whose files differ from those of dir in letter case only
DirVariants(dir) ==
  { [ f \in DOMAIN dir |-> StrOf(Recased(dir[f], v), 1, Len(dir[f])) ] : v \in 1..4 }

\* C17: matching is case-insensitive in every component: for a text and any
\* text that differs from it in letter case only, the migration classifier
\* returns the same verdict, the query advisor the same advice, and the
\* auditor extracts the same lower-cased table-name sets.
C17_CaseInsensitive ==
  /\ Validated =>
       \A v \in CaseVariants(sql) :
         validate_migration(registry.DANGEROUS_OPS, MigrationPath, TRUE, v) = vm
  /\ Generated =>
       \A v \in CaseVariants(sql) :
         LET g == MigrationGenerator_run(MigrationName, v, gen.down_sql, gen.estimated_rows, Clock[1], Clock[1])
         IN  /\ g.risks = gen.risks
             /\ g.is_additive = gen.is_additive
             /\ g.estimated_runtime = gen.estimated_runtime
  /\ Advised =>
       \A v \in CaseVariants(query_text) :
         analyze_query(registry.QUERY_PATTERNS, v, TableOf(advice)).recommendations
           = advice.recommendations
  /\ Optimized =>
       \A v \in CaseVariants(query_text) :
         /\ QueryOptimizer_run(v).issues = opt.issues
         /\ QueryOptimizer_run(v).recommendations = opt.recommendations
  /\ Audited =>
       \A d \in DirVariants(files) :
         /\ AllCreated(d) = result.tables_created
         /\ AllRlsEnabled(d) = result.rls_enabled

\* a mixed-case directory with findings, audited
C17_Witness ==
  /\ Audited
  /\ result.tables_created # {}
  /\ result.rls_enabled # {}
  /\ \E f \in GlobSql(files) : \A d \in DirVariants(files) : d[f] # files[f]

\* the entries of a list are among those of another
AllAmong(list, known) == \A k \in 1..Len(list) : InSeq(list[k], known)

\* C18: the engine never fails on text input: for empty text, malformed SQL
\* and text that is no SQL, the migration classifier, the runtime estimator
\* and the query advisor return a well-formed result, possibly without
\* findings, and raise no error.
C18_NeverFailsOnText ==
  /\ Validated =>
       /\ vm.is_safe \in BOOLEAN
       /\ AllAmong(vm.issues, [ k \in 1..Len(DANGEROUS_OPS) |-> DANGEROUS_OPS[k].description ])
       /\ AllAmong(vm.warnings, << W_INDEX_LOCK, W_NO_RLS, W_NO_POLICY, W_NO_ROLLBACK >>)
  /\ Generated =>
       /\ gen.is_additive \in BOOLEAN
       /\ AllAmong(gen.risks, << R_DROP_TABLE, R_DROP_COLUMN, R_TYPE_CHANGE, R_INDEX_LOCK >>)
       /\ Bucket(gen.estimated_runtime) # "NoBucket"
       /\ Len(gen.content) > 0
  /\ advice # NoResult =>
       /\ advice.raised = ""
       /\ AllAmong(AdviceIssues, RuleOrder)
       /\ \A k \in 1..Len(advice.recommendations) : Len(advice.recommendations[k].suggestion) > 0
  /\ Optimized =>
       /\ AllAmong(opt.issues, << Q_SELECT_STAR, Q_NO_WHERE, Q_ORDER_BY >>)
       /\ Len(opt.recommendations) = Len(opt.issues)
       /\ Len(opt.report) > 0

\* malformed SQL that sets off two index templates
C18_Witness ==
  /\ advice # NoResult
  /\ query_text = "WHERE user_id = = )("
  /\ advice.raised = ""
  /\ Len(advice.recommendations) = 2

(***************************************************************************)
(* Properties of generators and checkers together.                         *)
(***************************************************************************)
\* both tools have run for table t
RoundTripOf(t) == files # NoDir /\ { SchemaFileName(t), PolicyFileName(t) } \subseteq DOMAIN files

\* the name as the auditor reports it (str.lower)
LowerName(t) == StrOf(Lower(t), 1, Len(t))

CrudOperations == << "select", "insert", "update", "delete" >>

\* the text holds a policy on t for the operation, for authenticated users
HasOwnPolicy(text, t, operation) ==
  Contains(Chars(text),
           "CREATE POLICY \"" \o t \o "_" \o operation \o "_own\"\n  ON " \o t \o "\n  FOR "
           \o StrOf(Upper(operation), 1, Len(operation)) \o "\n  TO authenticated\n")

\* the text holds the policy that lets the service role through
HasServiceRoleBypass(text, t) ==
  Contains(Chars(text),
           "  ON " \o t \o "\n  FOR ALL\n  TO service_role\n  USING (true)\n  WITH CHECK (true);")

\* C24: for a table name t of word characters, the outputs of
\* SchemaDesignerTool and RLSPolicyGeneratorTool for t, as a migration set,
\* are seen by the auditor as creating t and enabling row-level security on t,
\* so t is not reported missing; the two outputs one after the other get
\* neither the 'without RLS enabled' nor the 'without RLS policies' warning
\* from validate_migration; and the policies cover SELECT, INSERT, UPDATE and
\* DELETE for authenticated users and hold a service-role bypass.
C24_GeneratorsPassCheckers ==
  \A t \in RoundTripTables :
    RoundTripOf(t) =>
      /\ Audited => /\ LowerName(t) \in result.tables_created
                    /\ LowerName(t) \in result.rls_enabled
      /\ Reported => ~InSeq(LowerName(t), report.missing_rls)
      /\ vm # NoResult => /\ ~InSeq(W_NO_RLS, vm.warnings)
                          /\ ~InSeq(W_NO_POLICY, vm.warnings)
      /\ \A k \in 1..Len(CrudOperations) :
           HasOwnPolicy(files[PolicyFileName(t)], t, CrudOperations[k])
      /\ HasServiceRoleBypass(files[PolicyFileName(t)], t)

\* the required table profiles designed, its policies generated, the
\* directory audited and reported, and the migration validated
C24_Witness ==
  /\ RoundTripOf("profiles")
  /\ Reported
  /\ "profiles" \in result.tables_created
  /\ "profiles" \in result.rls_enabled
  /\ report.verdict = "All user tables have RLS enabled!"
  /\ vm # NoResult
  /\ Contains(Chars(sql), "CREATE TABLE profiles (")
  /\ vm.warnings = << W_NO_ROLLBACK >>

(***************************************************************************)
(* Properties of parallel callers.                                         *)
(***************************************************************************)
SameCall(a, b) == a.kind = b.kind /\ a.sql = b.sql /\ a.rows = b.rows

\* C8: classification is a pure function: two calls with the same text and
\* row count return the same verdict components (additive flag, blocking
\* issues or risks, warnings, runtime estimate), whatever calls were made
\* before and however the calls of parallel workers interleave, and no call
\* changes a pattern registry.
C8_PureClassification ==
  /\ \A a \in returned, b \in returned : SameCall(a, b) => a.verdict = b.verdict
  /\ registry = InitRegistry
  /\ registry.DANGEROUS_OPS = DANGEROUS_OPS
  /\ registry.SAFE_OPS = SAFE_OPS
  /\ registry.QUERY_PATTERNS = QUERY_PATTERNS
  /\ registry.REQUIRED_RLS_TABLES = REQUIRED_RLS_TABLES
  /\ registry.EXEMPT_TABLES = EXEMPT_TABLES

C8_Witness ==
  \E a \in returned, b \in returned :
    /\ a.worker # b.worker
    /\ SameCall(a, b)
    /\ a.kind = "generate"
    /\ a.overlapped /\ b.overlapped
    /\ Len(a.verdict.findings) > 0
    /\ a.verdict = b.verdict
    /\ left.risks # << >>

====
